---- MODULE Spec2Model ----
(***************************************************************************)
(* Catalog synchronization pipeline of the phone-number storefront:        *)
(* withRetry, the two provider adapters, the price normalizer, the         *)
(* identity merger and the shadow-then-rename publisher of runUpdate       *)
(* (backend/setup-indexes.js), with the storefront reader of               *)
(* backend/server.js.                                                      *)
(*                                                                         *)
(* Strings are sequences of one-character pieces so that toLowerCase,      *)
(* trim, the canonical-key regexp and template concatenation are computed  *)
(* and not assumed.  Literals of the source ("srv", "any", "5sim",         *)
(* "sms-activate") are single pieces; their characters never occur in the  *)
(* token alphabet, so equal sequences are equal strings and conversely.    *)
(***************************************************************************)
EXTENDS Integers, Sequences, FiniteSets, TLC

VARIABLES
    rt,                         \* withRetry: the frame of the call under study
    conv,                       \* convertToToman: the call under study and its result
    mapper,                     \* country-mapper.js: the tables it loads and its map
    overlap,                    \* two runs of the publisher on one store
    shop,                       \* server.js: balance, orders and the requests in flight
    ttl,                        \* src/cache.js: the clock, the map and the last call
    storefront,                 \* server.js: servicesCache, cacheTimestamp and requests
    pc,                         \* runUpdate: position of the run
    usdToTomanRate,             \* module-level rates of the pipeline process
    rubToTomanRate,
    fetchA,                     \* the provider-A promise of Promise.all and its withRetry frame
    fetchB,                     \* fetchSmsActivatePrices: its position, frame and allSmsServices
    fiveSimData,                \* runUpdate: what Promise.all resolved with
    smsActivateServicesData,
    allServicesRaw,             \* runUpdate: the raw records
    formattedServices,          \* runUpdate: the entries handed to the publisher
    services,                   \* the live collection 'services'
    service_temps,              \* the shadow collection 'service_temps'
    upstream,                   \* what the two providers hold during this run
    runs,                       \* number of runs started
    prior,                      \* history: 'services' when the run started
    failedAt,                   \* history: the stage whose error the catch block received
    streak                      \* history: the runs in a row that failed before the
                                \* publisher, and 'services' before the first of them

rateVars == <<usdToTomanRate, rubToTomanRate>>

fetchVars == <<fetchA, fetchB>>

runVars == <<fiveSimData, smsActivateServicesData, allServicesRaw, formattedServices>>

storeVars == <<services, service_temps>>

histVars == <<upstream, runs, prior, failedAt, streak>>

dataVars == <<rateVars, fetchVars, runVars, storeVars, histVars>>

retryVars == <<rt>>

sideVars == <<overlap, shop, ttl, storefront>>

vars == <<rt, conv, mapper, sideVars, pc, dataVars>>

-----------------------------------------------------------------------------
(* Bounds *)

MaxRetriesArg == 4      \* largest `retries` argument explored
MaxRecords == 2         \* most raw records the two providers report in one run
MaxRuns == 3            \* number of runs of the pipeline
MaxPrice == 10          \* largest native price handed to convertToToman
MaxRequests == 3        \* requests the storefront server accepts in one behaviour
MaxTicks == 3           \* times the clock of the TTL cache moves in one behaviour

-----------------------------------------------------------------------------
(* withRetry (setup-indexes.js 686-707) *)

DefaultRetries == 3
DefaultDelay == 1000
DefaultJitter == 200

\* error.response && error.response.status of an error without a response
NoStatus == 0

ErrStatuses == {NoStatus, 400, 404, 429, 500, 503}

Err(s) == [ok |-> FALSE, status |-> s]

Ok200 == [ok |-> TRUE, status |-> 200]

\* what one invocation of fn may do: resolve, or reject with a status
Outcomes == {Ok200} \cup {Err(s) : s \in ErrStatuses}

\* Math.random() * jitter lies in [0, jitter): sampled at both ends and the middle
JitterValues(jitter) == {0, jitter \div 2, jitter - 1}

RECURSIVE Pow2(_)
Pow2(n) == IF n = 0 THEN 1 ELSE 2 * Pow2(n - 1)

\* mutant: every failure that carries a status is retried
isRetryableAnyStatus(status) == status # NoStatus

\* status === 429 || status >= 500   (undefined compares false to both)
isRetryable(status) == status # NoStatus /\ (status = 429 \/ status >= 500)

\* the frame of a call that is not running
RtIdle == [st |-> "idle", retries |-> 0, i |-> 0, calls |-> 0, lastError |-> NoStatus,
           hist |-> <<>>, waits |-> <<>>]

\* let lastError; for (let i = 0; ...
RtStart(retries) == [st |-> IF 0 < retries THEN "call" ELSE "thrown",
                     retries |-> retries, i |-> 0, calls |-> 0,
                     lastError |-> NoStatus, hist |-> <<>>, waits |-> <<>>]

\* mutant: the wait grows linearly, delay * (i + 1)
RtInvokeLinear(r, o, j) ==
    IF o.ok
    THEN [r EXCEPT !.st = "returned", !.calls = @ + 1, !.hist = Append(@, o)]
    ELSE IF isRetryable(o.status)
         THEN [r EXCEPT !.st = "sleep", !.calls = @ + 1, !.hist = Append(@, o),
                        !.lastError = o.status,
                        !.waits = Append(@, DefaultDelay * (r.i + 1) + j)]
         ELSE [r EXCEPT !.st = "thrown", !.calls = @ + 1, !.hist = Append(@, o),
                        !.lastError = o.status]

\* mutant: no wait after the failure of the last attempt
RtInvokeNoFinalWait(r, o, j) ==
    IF o.ok
    THEN [r EXCEPT !.st = "returned", !.calls = @ + 1, !.hist = Append(@, o)]
    ELSE IF isRetryable(o.status) /\ r.i + 1 < r.retries
         THEN [r EXCEPT !.st = "sleep", !.calls = @ + 1, !.hist = Append(@, o),
                        !.lastError = o.status,
                        !.waits = Append(@, DefaultDelay * Pow2(r.i) + j)]
         ELSE [r EXCEPT !.st = "thrown", !.calls = @ + 1, !.hist = Append(@, o),
                        !.lastError = o.status,
                        !.i = IF isRetryable(o.status) THEN r.i + 1 ELSE r.i]

\* try { return await fn(); } catch (error) { ... }: one invocation of fn with
\* outcome o; a retryable failure computes waitTime and starts the sleep
RtInvoke(r, o, j) ==
    IF o.ok
    THEN [r EXCEPT !.st = "returned", !.calls = @ + 1, !.hist = Append(@, o)]
    ELSE IF isRetryable(o.status)
         THEN [r EXCEPT !.st = "sleep", !.calls = @ + 1, !.hist = Append(@, o),
                        !.lastError = o.status,
                        !.waits = Append(@, DefaultDelay * Pow2(r.i) + j)]
         ELSE [r EXCEPT !.st = "thrown", !.calls = @ + 1, !.hist = Append(@, o),
                        !.lastError = o.status]

\* mutant: the loop test written i <= retries
RtWakeOffByOne(r) ==
    IF r.i + 1 <= r.retries
    THEN [r EXCEPT !.st = "call", !.i = @ + 1]
    ELSE [r EXCEPT !.st = "thrown", !.i = @ + 1]

\* the sleep resolves: i++, then the loop test; falling out throws lastError
RtWake(r) ==
    IF r.i + 1 < r.retries
    THEN [r EXCEPT !.st = "call", !.i = @ + 1]
    ELSE [r EXCEPT !.st = "thrown", !.i = @ + 1]

RtDone(r) == r.st \in {"returned", "thrown"}

-----------------------------------------------------------------------------
(* JavaScript values and strings *)

\* the number NaN, and the numeric reading of undefined
NaN == -1000000

\* a string that is not a numeral, such as 'n/a'
NonNumeric == -2000000

IsNum(x) == x \notin {NaN, NonNumeric}

\* v || 0
OrZero(v) == IF v \in {NaN, 0} THEN 0 ELSE v

\* Number(v) || 0
NumberOrZero(v) == IF IsNum(v) THEN v ELSE 0

\* x * y on numbers
Times(x, y) == IF IsNum(x) /\ IsNum(y) THEN x * y ELSE NaN

\* mutant: Math.floor(x * 1.4)
Ceil14Floor(x) == IF ~IsNum(x) THEN NaN ELSE (x * 14) \div 10

\* Math.ceil(x * 1.4) for an integer x
Ceil14(x) == IF ~IsNum(x) THEN NaN ELSE (x * 14 + 9) \div 10

-----------------------------------------------------------------------------
(* convertToToman (src/services/priceConverter.js 5-6, 30-46) *)

\* PROFIT_MARGIN = 0.4, in tenths
PROFIT_MARGIN_TENTHS == 4

ROUNDING_PRECISION == 100

ConvIdle == [st |-> "idle", price |-> 0, currency |-> "", rates |-> [rub |-> NaN, usd |-> NaN],
             result |-> 0]

\* mutant: no rounding to the unit
convertToTomanNoRounding(price, currency, rates) ==
    LET rate == IF currency = "RUB" THEN rates.rub
                ELSE IF currency = "USD" THEN rates.usd ELSE 1
    IN  Ceil14(Times(price, rate))

\* Math.ceil((price * rate * (1 + PROFIT_MARGIN)) / ROUNDING_PRECISION) * ROUNDING_PRECISION
convertToToman(price, currency, rates) ==
    LET rate == IF currency = "RUB" THEN rates.rub
                ELSE IF currency = "USD" THEN rates.usd ELSE 1
        convertedPrice == Times(price, rate)
    IN  IF ~IsNum(convertedPrice) THEN NaN
        ELSE ((convertedPrice * (10 + PROFIT_MARGIN_TENTHS) + 10 * ROUNDING_PRECISION - 1)
                  \div (10 * ROUNDING_PRECISION)) * ROUNDING_PRECISION

\* the rates objects handed in; a missing field reads as undefined
ConvRates == [rub : {150, 3, NaN}, usd : {50000, 7, NaN}]

Currencies == {"RUB", "USD", "EUR"}

-----------------------------------------------------------------------------
(* toLowerCase, trim, the canonical key, title case *)

LowerChar(c) == IF c = "A" THEN "a" ELSE IF c = "B" THEN "b" ELSE c

UpperChar(c) == IF c = "a" THEN "A" ELSE IF c = "b" THEN "B" ELSE c

\* [a-z0-9] after toLowerCase
IsAlnumChar(c) == c \in {"a", "b"}

toLowerCase(s) == [k \in 1..Len(s) |-> LowerChar(s[k])]

RECURSIVE trimStart(_)
trimStart(s) == IF s # <<>> /\ Head(s) = " " THEN trimStart(Tail(s)) ELSE s

RECURSIVE trimEnd(_)
trimEnd(s) == IF s # <<>> /\ s[Len(s)] = " " THEN trimEnd(SubSeq(s, 1, Len(s) - 1)) ELSE s

trim(s) == trimEnd(trimStart(s))

\* name.toLowerCase().replace(/[^a-z0-9]/g, '')   (country-mapper.js 7-9)
generateCanonicalName(name) == SelectSeq(toLowerCase(name), IsAlnumChar)

\* name.split(' ').map(w => w.charAt(0).toUpperCase() + w.slice(1).toLowerCase()).join(' ')
titleCase(name) ==
    [k \in 1..Len(name) |->
        IF k = 1 \/ name[k - 1] = " " THEN UpperChar(name[k]) ELSE LowerChar(name[k])]

-----------------------------------------------------------------------------
(* Reference tables: samples of the data files the scripts load *)

\* sms-activate-countries.json: provider-B country id -> country name
smsActivateCountries == (0 :> <<"A">>) @@ (1 :> <<"a", " ">>)

\* translations: country name -> localized name
countryTranslations == (<<"a">> :> "fa:a") @@ (<<"B", " ", "a">> :> "fa:ba")

\* country-codes: canonical name -> code
countryCodes == (<<"a">> :> "code:a") @@ (<<"b", "a">> :> "code:ba")

\* service-priority.js: canonical key -> { name, priority }
servicePriority == (<<"b">> :> [name |-> <<"fa:b">>, priority |-> 1])

DefaultPriority == 999

\* obj[key] of a table, undefined as the given default
Lookup(table, key, default) == IF key \in DOMAIN table THEN table[key] ELSE default

-----------------------------------------------------------------------------
(* Canonical country resolver (country-mapper.js) *)

NoCountry == [persian |-> "", code |-> "", original |-> <<>>]

\* first loop: the provider-supplied names that have a translation and a code
ProviderCountryKeys ==
    {generateCanonicalName(smsActivateCountries[id]) : id \in
        {i \in DOMAIN smsActivateCountries :
            LET c == generateCanonicalName(smsActivateCountries[i])
            IN  c \in DOMAIN countryTranslations /\ c \in DOMAIN countryCodes}}

\* second loop: the internal names not already present that have a code
InternalCountryKeys ==
    {generateCanonicalName(key) : key \in
        {k \in DOMAIN countryTranslations :
            /\ generateCanonicalName(k) \notin ProviderCountryKeys
            /\ generateCanonicalName(k) \in DOMAIN countryCodes}}

unifiedCountryMap ==
    [c \in ProviderCountryKeys \cup InternalCountryKeys |->
        IF c \in ProviderCountryKeys
        THEN [persian |-> countryTranslations[c], code |-> countryCodes[c],
              original |-> smsActivateCountries[
                  CHOOSE i \in DOMAIN smsActivateCountries :
                      /\ generateCanonicalName(smsActivateCountries[i]) = c
                      /\ \A j \in DOMAIN smsActivateCountries :
                            generateCanonicalName(smsActivateCountries[j]) = c => j <= i]]
        ELSE LET key == CHOOSE k \in DOMAIN countryTranslations :
                            generateCanonicalName(k) = c
             IN  [persian |-> countryTranslations[key], code |-> countryCodes[c],
                  original |-> key]]

\* unifiedCountryMap.get(generateCanonicalName(name)); NoCountry stands for undefined
getCountryDataByCanonicalName(name) ==
    Lookup(unifiedCountryMap, generateCanonicalName(name), NoCountry)

\* Map.prototype.set
MapSet(map, key, value) ==
    [x \in DOMAIN map \cup {key} |-> IF x = key THEN value ELSE map[x]]

\* the body of the first loop (12-27) for one provider-supplied name
ProviderStep(map, name, translations, codes) ==
    LET canonicalName == generateCanonicalName(name)
    IN  IF canonicalName \in DOMAIN translations /\ canonicalName \in DOMAIN codes
        THEN MapSet(map, canonicalName,
                    [persian |-> translations[canonicalName],
                     code |-> codes[canonicalName], original |-> name])
        ELSE map

\* the body of the second loop (30-42) for one key of the translations
InternalStep(map, key, translations, codes) ==
    LET canonicalName == generateCanonicalName(key)
    IN  IF canonicalName \notin DOMAIN map /\ canonicalName \in DOMAIN codes
        THEN MapSet(map, canonicalName,
                    [persian |-> translations[key],
                     code |-> codes[canonicalName], original |-> key])
        ELSE map

\* the second loop from place k of the order in which for-in visits the keys
RECURSIVE InternalLoop(_, _, _, _, _)
InternalLoop(map, keys, translations, codes, k) ==
    IF k > Len(keys) THEN map
    ELSE InternalLoop(InternalStep(map, keys[k], translations, codes),
                      keys, translations, codes, k + 1)

\* the orders in which the members of S can be visited
Orders(S) == {q \in [1..Cardinality(S) -> S] : \A x \in S : \E k \in DOMAIN q : q[k] = x}

\* for-in over integer keys: ascending
Ascending(S) == CHOOSE q \in Orders(S) : \A i, j \in DOMAIN q : i < j => q[i] < q[j]

\* the module before it is loaded
MapperIdle ==
    [st |-> "idle", countries |-> <<>>, translations |-> <<>>, codes |-> <<>>,
     ids |-> <<>>, keys |-> <<>>, i |-> 0, map |-> <<>>]

\* names sms-activate-countries.json may give to an id
ProviderNames == {<<"A">>, <<"a", " ">>, <<"B", " ", "a">>, <<"b">>}

ProviderTables == UNION {[S -> ProviderNames] : S \in SUBSET {0, 1}}

\* translations.js: the sample above, one with canonical keys only, and one
\* with two spellings of a name and a name that has no code
TranslationTables ==
    {countryTranslations,
     (<<"a">> :> "fa:a") @@ (<<"b", "a">> :> "fa:ba"),
     (<<"B", " ", "a">> :> "fa:Ba") @@ (<<"b", "a">> :> "fa:ba") @@ (<<"b">> :> "fa:b")}

\* require('./country-mapper'): the three tables are loaded (1-5)
MapperLoad ==
    /\ mapper.st = "idle"
    /\ \E countries \in ProviderTables : \E translations \in TranslationTables :
       \E keys \in Orders(DOMAIN translations) :
          mapper' = [st |-> "provider", countries |-> countries,
                     translations |-> translations, codes |-> countryCodes,
                     ids |-> Ascending(DOMAIN countries), keys |-> keys,
                     i |-> 1, map |-> <<>>]
    /\ UNCHANGED <<rt, conv, sideVars, pc, dataVars>>

\* one turn of the first loop (12-27)
MapperProvider ==
    /\ mapper.st = "provider"
    /\ mapper' =
          IF mapper.i > Len(mapper.ids)
          THEN [mapper EXCEPT !.st = "internal", !.i = 1]
          ELSE [mapper EXCEPT !.i = @ + 1,
                   !.map = ProviderStep(@, mapper.countries[mapper.ids[mapper.i]],
                                        mapper.translations, mapper.codes)]
    /\ UNCHANGED <<rt, conv, sideVars, pc, dataVars>>

\* one turn of the second loop (30-42)
MapperInternal ==
    /\ mapper.st = "internal"
    /\ mapper' =
          IF mapper.i > Len(mapper.keys)
          THEN [mapper EXCEPT !.st = "built"]
          ELSE [mapper EXCEPT !.i = @ + 1,
                   !.map = InternalStep(@, mapper.keys[mapper.i],
                                        mapper.translations, mapper.codes)]
    /\ UNCHANGED <<rt, conv, sideVars, pc, dataVars>>

-----------------------------------------------------------------------------
(* Provider adapters: upstream payloads to raw records *)

\* iteration order of the keys of the provider payloads
CountryOrder == << <<"a">>, <<"A", " ">>, <<"b", "_", "a">>, <<"b">> >>

ServiceOrder == << <<"b">>, <<"b", "_", "b">> >>

OperatorOrder == << <<"any">>, <<"o">> >>

CountryIdOrder == <<0, 1, 2>>

Range(q) == {q[k] : k \in 1..Len(q)}

\* a record of allServicesRaw; service_name <<>> stands for undefined
RawRecord(provider, country, service, serviceName, operator, price, count, rate) ==
    [provider |-> provider, country |-> country, service |-> service,
     service_name |-> serviceName, operator |-> operator,
     price |-> price, count |-> count, rate |-> rate]

\* inner loop of the operator-keyed shape (setup-indexes.js 732-735)
RECURSIVE FlattenOperators(_, _, _, _)
FlattenOperators(details, countryName, serviceName, k) ==
    IF k > Len(OperatorOrder) THEN <<>>
    ELSE LET operatorName == OperatorOrder[k]
             rest == FlattenOperators(details, countryName, serviceName, k + 1)
         IN  IF operatorName \in DOMAIN details.ops
             THEN <<RawRecord("5sim", countryName, serviceName, <<>>, operatorName,
                              details.ops[operatorName].cost,
                              details.ops[operatorName].count,
                              OrZero(details.ops[operatorName].rate))>> \o rest
             ELSE rest

\* mutant: an operator-keyed entry gives one record, that of its first operator
FlattenDetailsFirstOperator(details, countryName, serviceName) ==
    IF details.direct
    THEN <<RawRecord("5sim", countryName, serviceName, <<>>, <<"any">>,
                     details.leaf.cost, details.leaf.count,
                     OrZero(details.leaf.rate))>>
    ELSE SubSeq(FlattenOperators(details, countryName, serviceName, 1), 1, 1)

\* one (country, service) entry: direct leaf or operator-keyed (728-736)
FlattenDetails(details, countryName, serviceName) ==
    IF details.direct
    THEN <<RawRecord("5sim", countryName, serviceName, <<>>, <<"any">>,
                     details.leaf.cost, details.leaf.count,
                     OrZero(details.leaf.rate))>>
    ELSE FlattenOperators(details, countryName, serviceName, 1)

RECURSIVE FlattenServices(_, _, _)
FlattenServices(data, countryName, k) ==
    IF k > Len(ServiceOrder) THEN <<>>
    ELSE LET serviceName == ServiceOrder[k]
             rest == FlattenServices(data, countryName, k + 1)
         IN  IF serviceName \in DOMAIN data[countryName]
             THEN FlattenDetails(data[countryName][serviceName], countryName, serviceName)
                      \o rest
             ELSE rest

\* the 5sim loop of runUpdate (726-738)
RECURSIVE FlattenFiveSim(_, _)
FlattenFiveSim(data, k) ==
    IF k > Len(CountryOrder) THEN <<>>
    ELSE LET countryName == CountryOrder[k]
             rest == FlattenFiveSim(data, k + 1)
         IN  IF countryName \in DOMAIN data
             THEN FlattenServices(data, countryName, 1) \o rest
             ELSE rest

\* the countryId loop of fetchSmsActivatePrices for one service (856-871)
RECURSIVE SmsRecordsOf(_, _, _, _)
SmsRecordsOf(service, prices, countries, k) ==
    IF k > Len(CountryIdOrder) THEN <<>>
    ELSE LET countryId == CountryIdOrder[k]
             rest == SmsRecordsOf(service, prices, countries, k + 1)
         IN  IF countryId \in DOMAIN prices /\ countryId \in DOMAIN countries
             THEN <<RawRecord("sms-activate", countries[countryId], service.code,
                              service.name, <<"any">>,
                              prices[countryId].retail_price,
                              prices[countryId].count, 0)>> \o rest
             ELSE rest

-----------------------------------------------------------------------------
(* Price normalizer and identity merger (setup-indexes.js 748-808) *)

\* mutant: the identity also carries the record's count
MakeIdWithCount(s, cleanServiceCode, cleanCountry) ==
    <<"srv", "_">> \o cleanServiceCode \o <<"_">> \o cleanCountry \o <<"_">>
        \o s.operator \o <<"_", s.provider, "_", ToString(s.count)>>

\* `srv_${cleanServiceCode}_${cleanCountry}_${s.operator}_${s.provider}`
MakeId(s, cleanServiceCode, cleanCountry) ==
    <<"srv", "_">> \o cleanServiceCode \o <<"_">> \o cleanCountry \o <<"_">>
        \o s.operator \o <<"_", s.provider>>

\* s.service_name || s.service
CanonicalEnglishName(s) == IF s.service_name # <<>> THEN s.service_name ELSE s.service

\* servicePriority[canonicalKeyFromName] || servicePriority[cleanServiceCode]
NoPriority == [name |-> <<>>, priority |-> 0]

PriorityInfo(s) ==
    LET byName == Lookup(servicePriority, generateCanonicalName(CanonicalEnglishName(s)),
                         NoPriority)
    IN  IF byName # NoPriority THEN byName
        ELSE Lookup(servicePriority, trim(toLowerCase(s.service)), NoPriority)

\* mutant: the English name is taken as it is
ServicePersianRaw(s) ==
    IF PriorityInfo(s).name # <<>> THEN PriorityInfo(s).name
    ELSE CanonicalEnglishName(s)

\* priorityInfo?.name, else the title-cased English name (762-769)
ServicePersian(s) ==
    IF PriorityInfo(s).name # <<>> THEN PriorityInfo(s).name
    ELSE titleCase(CanonicalEnglishName(s))

\* mutant: one rate for both providers
BasePriceTomanOneRate(s, usd, rub) == Times(NumberOrZero(s.price), usd)

\* basePriceToman (773-778)
BasePriceToman(s, usd, rub) ==
    IF s.provider = "sms-activate"
    THEN Times(NumberOrZero(s.price), usd)
    ELSE Times(NumberOrZero(s.price), rub)

\* mutant: the filter written basePriceToman < 0
PriceDroppedStrict(base) == IsNum(base) /\ base < 0

\* basePriceToman <= 0   (false for NaN)
PriceDropped(base) == IsNum(base) /\ base <= 0

\* the three `continue`s of the loop: no name, unmappable country, price filter
Skipped(s, usd, rub) ==
    \/ CanonicalEnglishName(s) = <<>>
    \/ getCountryDataByCanonicalName(trim(toLowerCase(s.country))) = NoCountry
    \/ PriceDropped(BasePriceToman(s, usd, rub))

\* mutant: availability written count >= 0
AvailableNonNegative(count) == count >= 0

\* s.count > 0
Available(count) == count > 0

\* unknownServiceCodes after the loop (749, 755-768): the codes of the records
\* without a name, and of those without an entry of servicePriority
UnknownServiceCodes(raw) ==
    {raw[k].service : k \in {j \in DOMAIN raw :
        \/ CanonicalEnglishName(raw[j]) = <<>>
        \/ PriorityInfo(raw[j]) = NoPriority}}

\* formattedService (784-797)
FormatService(s, usd, rub) ==
    LET cleanServiceCode == trim(toLowerCase(s.service))
        cleanCountry == trim(toLowerCase(s.country))
        countryData == getCountryDataByCanonicalName(cleanCountry)
        finalPriceToman == Ceil14(BasePriceToman(s, usd, rub))
    IN  [id |-> MakeId(s, cleanServiceCode, cleanCountry),
         service |-> s.service,
         service_persian |-> ServicePersian(s),
         country |-> s.country,
         country_persian |-> countryData.persian,
         country_code |-> countryData.code,
         operator |-> s.operator,
         price_toman |-> finalPriceToman,
         priority |-> IF PriorityInfo(s).priority # 0 THEN PriorityInfo(s).priority
                      ELSE DefaultPriority,
         available |-> Available(s.count),
         success_rate |-> OrZero(s.rate),
         provider |-> s.provider]

\* `${service_persian}_${country_persian}`
MapKey(e) == e.service_persian \o <<"_", e.country_persian>>

\* mutant: serviceMap.set(mapKey, [formattedService]) on every record
MapPushOverwrite(serviceMap, e) ==
    IF \E k \in 1..Len(serviceMap) : serviceMap[k].key = MapKey(e)
    THEN [k \in 1..Len(serviceMap) |->
            IF serviceMap[k].key = MapKey(e)
            THEN [key |-> MapKey(e), list |-> <<e>>]
            ELSE serviceMap[k]]
    ELSE Append(serviceMap, [key |-> MapKey(e), list |-> <<e>>])

\* if (!serviceMap.has(mapKey)) serviceMap.set(mapKey, []); serviceMap.get(mapKey).push(e)
MapPush(serviceMap, e) ==
    IF \E k \in 1..Len(serviceMap) : serviceMap[k].key = MapKey(e)
    THEN [k \in 1..Len(serviceMap) |->
            IF serviceMap[k].key = MapKey(e)
            THEN [key |-> MapKey(e), list |-> Append(serviceMap[k].list, e)]
            ELSE serviceMap[k]]
    ELSE Append(serviceMap, [key |-> MapKey(e), list |-> <<e>>])

\* the loop over allServicesRaw (751-805): the serviceMap after the first k records
RECURSIVE BuildServiceMap(_, _, _, _)
BuildServiceMap(raw, k, usd, rub) ==
    IF k = 0 THEN <<>>
    ELSE LET before == BuildServiceMap(raw, k - 1, usd, rub)
         IN  IF Skipped(raw[k], usd, rub) THEN before
             ELSE MapPush(before, FormatService(raw[k], usd, rub))

\* mutant: one entry of each group
RECURSIVE FlatHeads(_)
FlatHeads(serviceMap) ==
    IF serviceMap = <<>> THEN <<>>
    ELSE <<Head(serviceMap).list[1]>> \o FlatHeads(Tail(serviceMap))

\* Array.from(serviceMap.values()).flat()
RECURSIVE Flat(_)
Flat(serviceMap) ==
    IF serviceMap = <<>> THEN <<>> ELSE Head(serviceMap).list \o Flat(Tail(serviceMap))

FormatServices(raw, usd, rub) == Flat(BuildServiceMap(raw, Len(raw), usd, rub))

-----------------------------------------------------------------------------
(* What the upstream services may answer *)

\* { cost, count, rate } leaves of the provider-A payload
Leaves == {[cost |-> 1, count |-> 1, rate |-> 90],
           [cost |-> 1, count |-> 0, rate |-> 0]}

Direct(l) == [direct |-> TRUE, leaf |-> l, ops |-> <<>>]

OperatorKeyed(f) == [direct |-> FALSE, leaf |-> [cost |-> 0, count |-> 0, rate |-> 0], ops |-> f]

\* what a (country, service) entry may hold: a direct leaf, one operator, or
\* the two operators together
DetailsChoices ==
    {Direct(l) : l \in Leaves} \cup
    {OperatorKeyed(<<"o">> :> l) : l \in Leaves} \cup
    {OperatorKeyed((<<"any">> :> [cost |-> 1, count |-> 1, rate |-> 90]) @@
                   (<<"o">> :> [cost |-> 1, count |-> 0, rate |-> 0]))}

LeafCount(details) == IF details.direct THEN 1 ELSE Cardinality(DOMAIN details.ops)

FiveSimKeys == Range(CountryOrder) \X Range(ServiceOrder)

SubsetsUpTo(S, n) == {x \in SUBSET S : Cardinality(x) <= n}

RECURSIVE SumLeaves(_, _)
SumLeaves(flat, keys) ==
    IF keys = {} THEN 0
    ELSE LET key == CHOOSE x \in keys : TRUE
         IN  LeafCount(flat[key]) + SumLeaves(flat, keys \ {key})

\* country -> service -> details, from a flat assignment of details to keys
Nest(flat) ==
    [c \in {key[1] : key \in DOMAIN flat} |->
        [sv \in {key[2] : key \in {x \in DOMAIN flat : x[1] = c}} |-> flat[<<c, sv>>]]]

\* the bodies of GET /guest/prices with at most n leaves
FiveSimPayloads(n) ==
    {Nest(flat) : flat \in
        {f \in UNION {[K -> DetailsChoices] : K \in SubsetsUpTo(FiveSimKeys, n)} :
            SumLeaves(f, DOMAIN f) <= n}}

\* getServicesList: { code, name }
SmsS1 == [code |-> <<"b">>, name |-> <<"B">>]

SmsS2 == [code |-> <<"a", "b">>, name |-> <<"a", " ", "b">>]

SmsDirectories == {<<>>, <<SmsS1>>, <<SmsS1, SmsS2>>}

\* getTopCountriesByService: countryId -> { retail_price, count }; retail_price
\* NaN is a non-numeric price
SmsQuotes == {[retail_price |-> 1, count |-> 1],
              [retail_price |-> 0, count |-> 1],
              [retail_price |-> NaN, count |-> 0],
              [retail_price |-> -1, count |-> 1]}

SmsPriceBodies(n) ==
    UNION {[K -> SmsQuotes] : K \in SubsetsUpTo(Range(CountryIdOrder), n)}

\* bodies of the rate source; NaN stands for a missing field, read as undefined
RateBodies == {[usd1 |-> 3, rub1 |-> 2], [usd1 |-> NaN, rub1 |-> 2],
               [usd1 |-> 3, rub1 |-> NaN], [usd1 |-> 0, rub1 |-> 0]}

\* the built-in defaults of the fallback (681-682)
FallbackUsd == 58000

FallbackRub == 630

\* parseFloat of USD_TO_TOMAN_RATE and RUB_TO_TOMAN_RATE: NaN when unset
EnvRates == {[usd |-> NaN, rub |-> NaN], [usd |-> 60000, rub |-> 700]}

\* what the rate source does during one run: it answers with a body, or the
\* request fails and the environment is read
RateSources ==
    {[ok |-> TRUE, body |-> b, env |-> [usd |-> NaN, rub |-> NaN]] : b \in RateBodies} \cup
    {[ok |-> FALSE, body |-> [usd1 |-> NaN, rub1 |-> NaN], env |-> e] : e \in EnvRates}

\* v || d
OrElse(v, d) == IF v \in {NaN, 0} THEN d ELSE v

\* the two rates updateCurrencyRates assigns (672-684)
RatesFrom(src) ==
    IF src.ok
    THEN <<src.body.usd1, src.body.rub1>>
    ELSE <<OrElse(src.env.usd, FallbackUsd), OrElse(src.env.rub, FallbackRub)>>

\* fetchSmsActivatePrices when every lookup succeeds: the loop over services
RECURSIVE SmsFetchAll(_, _, _, _)
SmsFetchAll(servicesList, bodies, countries, k) ==
    IF k > Len(servicesList) THEN <<>>
    ELSE SmsRecordsOf(servicesList[k], bodies[servicesList[k].code], countries, 1)
             \o SmsFetchAll(servicesList, bodies, countries, k + 1)

\* the results of adapter B with at most n records
SmsResults(n) ==
    {q \in UNION {{SmsFetchAll(dir, bodies, smsActivateCountries, 1) :
                      bodies \in [{sv.code : sv \in Range(dir)} -> SmsPriceBodies(n)]} :
                  dir \in SmsDirectories} : Len(q) <= n}

\* what Promise.all may resolve with: at most n raw records in all
FetchResults(n) ==
    UNION {{[fiveSim |-> p, sms |-> q] : q \in SmsResults(n - Len(FlattenFiveSim(p, 1)))} :
           p \in FiveSimPayloads(n)}

\* the rates after updateCurrencyRates: a body's fields, or the fallback
RatePairs == {RatesFrom(src) : src \in RateSources}

-----------------------------------------------------------------------------
(* The store *)

NoCollection == [exists |-> FALSE, docs |-> <<>>]

\* Service.find({}).lean() (server.js 710): a missing collection reads as empty
FindAll(collection) == IF collection.exists THEN collection.docs ELSE <<>>

\* the Service schema: price_toman and success_rate are numbers
ValidDoc(e) == IsNum(e.price_toman) /\ IsNum(e.success_rate)

-----------------------------------------------------------------------------
(* What the providers hold during one run of the whole pipeline *)

\* an operator key whose details are null
NullLeaf == [cost |-> NaN, count |-> NaN, rate |-> NaN]

LeafAvailable == [cost |-> 1, count |-> 1, rate |-> 90]

LeafSoldOut == [cost |-> 1, count |-> 0, rate |-> 0]

\* a leaf whose rate is not a number
LeafBadRate == [cost |-> 1, count |-> 1, rate |-> NonNumeric]

UpstreamOf(flat, status, dir, bodies) ==
    [fiveSim |-> Nest(flat), dir |-> [status |-> status, services |-> dir], bodies |-> bodies,
     rates |-> [ok |-> FALSE, body |-> [usd1 |-> NaN, rub1 |-> NaN],
                env |-> [usd |-> NaN, rub |-> NaN]]]

NoUpstream == UpstreamOf(<<>>, "success", <<>>, <<>>)

UpstreamSamples ==
    { \* both providers offer service b in country a
      UpstreamOf(<< <<"a">>, <<"b">> >> :> Direct(LeafAvailable), "success", <<SmsS1>>,
                 SmsS1.code :> (0 :> [retail_price |-> 1, count |-> 1])),
      \* the same offering sold out, a second spelling of the country, two services
      UpstreamOf((<< <<"a">>, <<"b">> >> :> Direct(LeafSoldOut)) @@
                 (<< <<"A", " ">>, <<"b">> >> :> Direct(LeafAvailable)),
                 "success", <<SmsS1, SmsS2>>,
                 (SmsS1.code :> <<>>) @@
                 (SmsS2.code :> (1 :> [retail_price |-> 1, count |-> 1]))),
      \* the service directory answers with an error status
      UpstreamOf(<< <<"a">>, <<"b">> >> :> Direct(LeafAvailable), "error", <<>>, <<>>),
      \* an operator key holding null
      UpstreamOf(<< <<"a">>, <<"b">> >> :> OperatorKeyed(<<"o">> :> NullLeaf),
                 "success", <<>>, <<>>),
      \* one leaf with a rate that is not a number
      UpstreamOf((<< <<"a">>, <<"b">> >> :> Direct(LeafBadRate)) @@
                 (<< <<"a">>, <<"b", "_", "b">> >> :> Direct(LeafAvailable)),
                 "success", <<>>, <<>>),
      \* nothing on offer
      NoUpstream }

\* the rate sources explored run after run: a full body, a body without usd1,
\* and the failed request with and without the environment
RunRateSources ==
    {src \in RateSources :
        ~src.ok \/ src.body \in {[usd1 |-> 3, rub1 |-> 2], [usd1 |-> NaN, rub1 |-> 2]}}

\* the outcomes of a provider call explored inside a run
RunOutcomes == {Ok200, Err(500), Err(404)}

-----------------------------------------------------------------------------
(* The two fetches of Promise.all (setup-indexes.js 717-720, 843-878) *)

FetchIdle == [st |-> "idle", rt |-> RtIdle]

\* started, succeeded and failed are history: the places in the directory of
\* the services whose lookup was issued (853), whose records were pushed
\* (856-871), and whose lookup ended in the catch at 872
FetchBIdle ==
    [st |-> "idle", step |-> "dir", k |-> 0, rt |-> RtIdle, acc |-> <<>>,
     started |-> {}, succeeded |-> {}, failed |-> {}]

\* withRetry(() => fiveSimClient.get('/guest/prices'), '5sim-prices') after a step of
\* its frame
SettleA(r) ==
    IF r.st = "returned" THEN [st |-> "resolved", rt |-> RtIdle]
    ELSE IF r.st = "thrown" THEN [st |-> "rejected", rt |-> RtIdle]
    ELSE [st |-> "pending", rt |-> r]

\* mutant: the lookups of all the services are issued together, as with
\* services.map and Promise.all
SmsAdvanceTogether(f, k, servicesList) ==
    IF k > Len(servicesList)
    THEN [f EXCEPT !.st = "resolved", !.step = "prices", !.k = k, !.rt = RtIdle]
    ELSE [f EXCEPT !.st = "pending", !.step = "prices", !.k = k,
                   !.rt = RtStart(DefaultRetries),
                   !.started = @ \cup k..Len(servicesList)]

\* the for loop of fetchSmsActivatePrices reaching service k: the next lookup
\* starts, or the function returns allSmsServices
SmsAdvance(f, k, servicesList) ==
    IF k > Len(servicesList)
    THEN [f EXCEPT !.st = "resolved", !.step = "prices", !.k = k, !.rt = RtIdle]
    ELSE [f EXCEPT !.st = "pending", !.step = "prices", !.k = k,
                   !.rt = RtStart(DefaultRetries), !.started = @ \cup {k}]

SmsRejected ==
    [st |-> "rejected", step |-> "dir", k |-> 0, rt |-> RtIdle, acc |-> <<>>,
     started |-> {}, succeeded |-> {}, failed |-> {}]

\* the body of the loop done for service f.k: its records are pushed
SmsPushed(f, up) ==
    [f EXCEPT !.acc = @ \o SmsRecordsOf(up.dir.services[f.k],
                              up.bodies[up.dir.services[f.k].code], smsActivateCountries, 1),
              !.succeeded = @ \cup {f.k}]

\* mutant: no try/catch around the lookup of one service
SettleBAbort(f, r, up) ==
    IF ~RtDone(r) THEN [f EXCEPT !.rt = r]
    ELSE IF f.step = "dir"
    THEN IF r.st = "thrown" \/ up.dir.status # "success"
         THEN SmsRejected
         ELSE SmsAdvance(f, 1, up.dir.services)
    ELSE IF r.st = "returned"
         THEN SmsAdvance(SmsPushed(f, up), f.k + 1, up.dir.services)
         ELSE [SmsRejected EXCEPT !.step = "prices"]

\* mutant: the status of the directory answer is not looked at
SettleBIgnoreStatus(f, r, up) ==
    IF ~RtDone(r) THEN [f EXCEPT !.rt = r]
    ELSE IF f.step = "dir"
    THEN IF r.st = "thrown"
         THEN SmsRejected
         ELSE SmsAdvance(f, 1, up.dir.services)
    ELSE IF r.st = "returned"
         THEN SmsAdvance(SmsPushed(f, up), f.k + 1, up.dir.services)
         ELSE SmsAdvance([f EXCEPT !.failed = @ \cup {f.k}], f.k + 1, up.dir.services)

\* fetchSmsActivatePrices after a step of the frame of its current call
SettleB(f, r, up) ==
    IF ~RtDone(r) THEN [f EXCEPT !.rt = r]
    ELSE IF f.step = "dir"
    THEN IF r.st = "thrown" \/ up.dir.status # "success"
         THEN SmsRejected
         ELSE SmsAdvance(f, 1, up.dir.services)
    ELSE IF r.st = "returned"
         THEN SmsAdvance(SmsPushed(f, up), f.k + 1, up.dir.services)
         ELSE SmsAdvance([f EXCEPT !.failed = @ \cup {f.k}], f.k + 1, up.dir.services)

FetchAInvoke ==
    /\ fetchA.st = "pending" /\ fetchA.rt.st = "call"
    /\ \E o \in RunOutcomes : fetchA' = SettleA(RtInvoke(fetchA.rt, o, 0))
    /\ UNCHANGED <<rt, conv, mapper, sideVars, pc, rateVars, fetchB, runVars, storeVars, histVars>>

FetchAWake ==
    /\ fetchA.st = "pending" /\ fetchA.rt.st = "sleep"
    /\ fetchA' = SettleA(RtWake(fetchA.rt))
    /\ UNCHANGED <<rt, conv, mapper, sideVars, pc, rateVars, fetchB, runVars, storeVars, histVars>>

FetchBInvoke ==
    /\ fetchB.st = "pending" /\ fetchB.rt.st = "call"
    /\ \E o \in RunOutcomes : fetchB' = SettleB(fetchB, RtInvoke(fetchB.rt, o, 0), upstream)
    /\ UNCHANGED <<rt, conv, mapper, sideVars, pc, rateVars, fetchA, runVars, storeVars, histVars>>

FetchBWake ==
    /\ fetchB.st = "pending" /\ fetchB.rt.st = "sleep"
    /\ fetchB' = SettleB(fetchB, RtWake(fetchB.rt), upstream)
    /\ UNCHANGED <<rt, conv, mapper, sideVars, pc, rateVars, fetchA, runVars, storeVars, histVars>>

-----------------------------------------------------------------------------
(* runUpdate (setup-indexes.js 709-841) *)

\* the stages before the publisher in which a run can fail
PrePublish == {"connect", "fetch", "normalize"}

\* the script is started: a fresh process, rates 0, nothing fetched; when
\* sms-activate-countries.json cannot be read the process ends with
\* process.exit(1) (649-658) and runUpdate is never called
RunStart ==
    /\ pc \in {"idle", "done", "fatal"}
    /\ runs < MaxRuns
    /\ runs' = runs + 1
    /\ \E u \in UpstreamSamples : \E src \in RunRateSources :
          upstream' = [u EXCEPT !.rates = src]
    /\ prior' = services
    /\ streak' = IF failedAt \in PrePublish
                 THEN [base |-> streak.base, n |-> streak.n + 1]
                 ELSE [base |-> services, n |-> 0]
    /\ \/ pc' = "rates" /\ failedAt' = "none"
       \/ pc' = "fatal" /\ failedAt' = "load"
    /\ usdToTomanRate' = 0 /\ rubToTomanRate' = 0
    /\ fetchA' = FetchIdle /\ fetchB' = FetchBIdle
    /\ fiveSimData' = <<>> /\ smsActivateServicesData' = <<>>
    /\ allServicesRaw' = <<>> /\ formattedServices' = <<>>
    /\ UNCHANGED <<rt, conv, mapper, sideVars, storeVars>>

\* mutant: no try/catch around the request of the rates
updateCurrencyRatesThrows ==
    /\ pc = "rates"
    /\ IF upstream.rates.ok
       THEN /\ usdToTomanRate' = upstream.rates.body.usd1
            /\ rubToTomanRate' = upstream.rates.body.rub1
            /\ pc' = "connect"
            /\ UNCHANGED failedAt
       ELSE /\ UNCHANGED rateVars
            /\ pc' = "finally"
            /\ failedAt' = "rates"
    /\ UNCHANGED <<rt, conv, mapper, sideVars, fetchVars, runVars, storeVars, upstream, runs, prior, streak>>

\* updateCurrencyRates (672-684): the fields of the body, or the fallback
updateCurrencyRates ==
    /\ pc = "rates"
    /\ usdToTomanRate' = RatesFrom(upstream.rates)[1]
    /\ rubToTomanRate' = RatesFrom(upstream.rates)[2]
    /\ pc' = "connect"
    /\ UNCHANGED <<rt, conv, mapper, sideVars, fetchVars, runVars, storeVars, histVars>>

\* mongoose.connect, then both fetches are started
RunConnect ==
    /\ pc = "connect"
    /\ \/ /\ pc' = "fetch"
          /\ fetchA' = [st |-> "pending", rt |-> RtStart(DefaultRetries)]
          /\ fetchB' = [FetchBIdle EXCEPT !.st = "pending", !.rt = RtStart(DefaultRetries)]
          /\ UNCHANGED failedAt
       \/ /\ pc' = "finally"
          /\ failedAt' = "connect"
          /\ UNCHANGED fetchVars
    /\ UNCHANGED <<rt, conv, mapper, sideVars, rateVars, runVars, storeVars, upstream, runs, prior, streak>>

\* mutant: the results are taken as with Promise.allSettled, a rejected fetch
\* counting as no data
RunAwaitFetchSettled ==
    /\ pc = "fetch"
    /\ fetchA.st \in {"resolved", "rejected"} /\ fetchB.st \in {"resolved", "rejected"}
    /\ fiveSimData' = IF fetchA.st = "resolved" THEN upstream.fiveSim ELSE <<>>
    /\ smsActivateServicesData' = fetchB.acc
    /\ failedAt' = IF "rejected" \in {fetchA.st, fetchB.st} THEN "fetch" ELSE failedAt
    /\ fetchA' = FetchIdle /\ fetchB' = FetchBIdle
    /\ pc' = "flatten"
    /\ UNCHANGED <<rt, conv, mapper, sideVars, rateVars, allServicesRaw, formattedServices, storeVars,
                   upstream, runs, prior, streak>>

\* mutant: the await goes on only when both fetches have resolved
RunAwaitFetchResolvedOnly ==
    /\ pc = "fetch"
    /\ fetchA.st = "resolved" /\ fetchB.st = "resolved"
    /\ fiveSimData' = upstream.fiveSim
    /\ smsActivateServicesData' = fetchB.acc
    /\ fetchA' = FetchIdle /\ fetchB' = FetchBIdle
    /\ pc' = "flatten"
    /\ UNCHANGED <<rt, conv, mapper, sideVars, rateVars, allServicesRaw, formattedServices, storeVars, histVars>>

\* await Promise.all([...]): rejects with the first rejection, resolves when
\* both have resolved
RunAwaitFetch ==
    /\ pc = "fetch"
    /\ \/ /\ "rejected" \in {fetchA.st, fetchB.st}
          /\ pc' = "finally"
          /\ failedAt' = "fetch"
          /\ UNCHANGED <<fetchVars, fiveSimData, smsActivateServicesData>>
       \/ /\ fetchA.st = "resolved" /\ fetchB.st = "resolved"
          /\ fiveSimData' = upstream.fiveSim
          /\ smsActivateServicesData' = fetchB.acc
          /\ fetchA' = FetchIdle /\ fetchB' = FetchBIdle
          /\ pc' = "flatten"
          /\ UNCHANGED failedAt
    /\ UNCHANGED <<rt, conv, mapper, sideVars, rateVars, allServicesRaw, formattedServices, storeVars,
                   upstream, runs, prior, streak>>

\* opDetails.cost of a null opDetails raises a TypeError
FlattenThrows(data) ==
    \E c \in DOMAIN data : \E sv \in DOMAIN data[c] :
        /\ ~data[c][sv].direct
        /\ \E op \in DOMAIN data[c][sv].ops : data[c][sv].ops[op] = NullLeaf

\* lines 724-741
RunFlatten ==
    /\ pc = "flatten"
    /\ IF FlattenThrows(fiveSimData)
       THEN pc' = "finally" /\ failedAt' = "normalize" /\ UNCHANGED allServicesRaw
       ELSE /\ allServicesRaw' = FlattenFiveSim(fiveSimData, 1) \o smsActivateServicesData
            /\ pc' = "normalize"
            /\ UNCHANGED failedAt
    /\ UNCHANGED <<fiveSimData, smsActivateServicesData, formattedServices>>
    /\ UNCHANGED <<rt, conv, mapper, sideVars, rateVars, fetchVars, storeVars, upstream, runs, prior, streak>>

\* lines 748-813
RunNormalize ==
    /\ pc = "normalize"
    /\ formattedServices' = FormatServices(allServicesRaw, usdToTomanRate, rubToTomanRate)
    /\ pc' = "clear"
    /\ UNCHANGED <<fiveSimData, smsActivateServicesData, allServicesRaw>>
    /\ UNCHANGED <<rt, conv, mapper, sideVars, rateVars, fetchVars, storeVars, histVars>>

\* mutant: the shadow collection is not cleared
RunClearTempKeep ==
    /\ pc = "clear"
    /\ service_temps' = [exists |-> TRUE, docs |-> service_temps.docs]
    /\ pc' = "insert"
    /\ UNCHANGED <<rt, conv, mapper, sideVars, rateVars, fetchVars, runVars, services, histVars>>

\* mongoose.model('Service_temp', ...) and TempService.deleteMany({}) (816-817)
RunClearTemp ==
    /\ pc = "clear"
    /\ \/ /\ service_temps' = [exists |-> TRUE, docs |-> <<>>]
          /\ pc' = "insert"
          /\ UNCHANGED failedAt
       \/ /\ pc' = "finally"
          /\ failedAt' = "clear"
          /\ UNCHANGED service_temps
    /\ UNCHANGED <<rt, conv, mapper, sideVars, rateVars, fetchVars, runVars, services, upstream, runs, prior, streak>>

\* what a unique index on id lets in: the first document of each id
RECURSIVE WithoutDuplicateIds(_)
WithoutDuplicateIds(q) ==
    IF q = <<>> THEN <<>>
    ELSE LET front == WithoutDuplicateIds(SubSeq(q, 1, Len(q) - 1))
             last == q[Len(q)]
         IN  IF \E i \in DOMAIN front : front[i].id = last.id THEN front
             ELSE Append(front, last)

\* TempService.insertMany(formattedServices, { ordered: false }) (820): the
\* documents the schema rejects are left out; an error of the store may leave
\* none or all of the batch behind; where the shadow has the unique index on
\* id, a batch with a repeated id is written without the repeats and
\* insertMany rejects with the write errors
RunInsertMany ==
    /\ pc = "insert"
    /\ \/ /\ service_temps' = [exists |-> TRUE,
                               docs |-> service_temps.docs \o SelectSeq(formattedServices, ValidDoc)]
          /\ pc' = "drop"
          /\ UNCHANGED failedAt
       \/ /\ LET batch == SelectSeq(formattedServices, ValidDoc)
             IN  /\ WithoutDuplicateIds(batch) # batch
                 /\ service_temps' = [exists |-> TRUE,
                                      docs |-> service_temps.docs \o WithoutDuplicateIds(batch)]
          /\ pc' = "finally"
          /\ failedAt' = "duplicate"
       \/ /\ \E batch \in {<<>>, SelectSeq(formattedServices, ValidDoc)} :
                service_temps' = [exists |-> TRUE, docs |-> service_temps.docs \o batch]
          /\ pc' = "finally"
          /\ failedAt' = "insert"
    /\ UNCHANGED <<rt, conv, mapper, sideVars, rateVars, fetchVars, runVars, services, upstream, runs, prior, streak>>

\* mutant: the error of dropping a missing collection is not caught
RunDropServicesStrict ==
    /\ pc = "drop"
    /\ IF services.exists
       THEN services' = NoCollection /\ pc' = "rename" /\ UNCHANGED failedAt
       ELSE UNCHANGED services /\ pc' = "finally" /\ failedAt' = "drop"
    /\ UNCHANGED <<rt, conv, mapper, sideVars, rateVars, fetchVars, runVars, service_temps,
                   upstream, runs, prior, streak>>

\* dropCollection('services').catch(...) (824-826): every error is swallowed
RunDropServices ==
    /\ pc = "drop"
    /\ \/ services.exists /\ services' = NoCollection
       \/ UNCHANGED services
    /\ pc' = "rename"
    /\ UNCHANGED <<rt, conv, mapper, sideVars, rateVars, fetchVars, runVars, service_temps, histVars>>

\* renameCollection('service_temps', 'services') (828): fails when the target
\* exists, when the source is missing, or with the connection
RunRename ==
    /\ pc = "rename"
    /\ \/ /\ service_temps.exists /\ ~services.exists
          /\ services' = [exists |-> TRUE, docs |-> service_temps.docs]
          /\ service_temps' = NoCollection
          /\ pc' = "count"
          /\ UNCHANGED failedAt
       \/ /\ pc' = "finally"
          /\ failedAt' = "rename"
          /\ UNCHANGED storeVars
    /\ UNCHANGED <<rt, conv, mapper, sideVars, rateVars, fetchVars, runVars, upstream, runs, prior, streak>>

\* Service.countDocuments() and the closing logs (831-833)
RunCount ==
    /\ pc = "count"
    /\ pc' = "finally"
    /\ \/ UNCHANGED failedAt
       \/ failedAt' = "count"
    /\ UNCHANGED <<rt, conv, mapper, sideVars, rateVars, fetchVars, runVars, storeVars, upstream, runs, prior, streak>>

\* mutant: a failed run is started over inside the same process
RunFinallyRetry ==
    /\ pc = "finally"
    /\ pc' = IF failedAt \in PrePublish THEN "rates" ELSE "done"
    /\ UNCHANGED <<rt, conv, mapper, sideVars, rateVars, fetchVars, runVars, storeVars, histVars>>

\* finally { await mongoose.disconnect(); } (837-840)
RunFinally ==
    /\ pc = "finally"
    /\ pc' = "done"
    /\ UNCHANGED <<rt, conv, mapper, sideVars, rateVars, fetchVars, runVars, storeVars, histVars>>

runUpdate ==
    \/ updateCurrencyRates \/ RunConnect \/ RunAwaitFetch \/ RunFlatten \/ RunNormalize
    \/ RunClearTemp \/ RunInsertMany \/ RunDropServices \/ RunRename \/ RunCount
    \/ RunFinally

fetchSmsActivatePrices == FetchBInvoke \/ FetchBWake

-----------------------------------------------------------------------------
(* The storefront server and the cache module before any request *)


-----------------------------------------------------------------------------
(* The TTL cache (src/cache.js) *)

\* an argument that was not passed
Undefined == -3000000

DefaultTtl == 600

CacheKeys == {"k1", "k2"}
CacheValues == {"v1", "v2"}
TtlArgs == {Undefined, 0, 1, 2}

\* milliseconds by which Date.now() moves between two calls
ClockSteps == {1000, 599000}

\* cache.get(key) of a key that was never set, or was deleted
NoEntry == [present |-> FALSE, value |-> "null", expiration |-> 0]

\* latest, last and ticks are history: the arguments and time of the latest
\* setCache of each key, the latest call with what it returned, and the number
\* of times the clock has moved
NeverSet == [set |-> FALSE, value |-> "null", at |-> 0, ttlSeconds |-> 0]
NoCall == [op |-> "none", key |-> "", at |-> 0, result |-> "null"]

TtlIdle == [st |-> "idle", now |-> 0, ticks |-> 0, cache |-> <<>>, latest |-> <<>>, last |-> NoCall]

\* setCache(key, value, ttlSeconds) (3-10): the cache after the call
setCache(entries, now, key, value, ttlSeconds) ==
    LET seconds == IF ttlSeconds \in {Undefined, NaN, 0} THEN DefaultTtl ELSE ttlSeconds
    IN  [entries EXCEPT ![key] = [present |-> TRUE, value |-> value,
                                  expiration |-> now + seconds * 1000]]

\* mutant: an entry is still returned at its expiration time
getCacheInclusive(entries, now, key) ==
    LET cached == entries[key]
    IN  IF cached.present /\ now <= cached.expiration
        THEN [result |-> cached.value, cache |-> entries]
        ELSE [result |-> "null", cache |-> [entries EXCEPT ![key] = NoEntry]]

\* getCache(key) (12-20): what is returned and the cache after the call
getCache(entries, now, key) ==
    LET cached == entries[key]
    IN  IF cached.present /\ now < cached.expiration
        THEN [result |-> cached.value, cache |-> entries]
        ELSE [result |-> "null", cache |-> [entries EXCEPT ![key] = NoEntry]]

\* the module is loaded: const cache = new Map() (1)
TtlLoad ==
    /\ ttl.st = "idle"
    /\ ttl' = [TtlIdle EXCEPT !.st = "ready",
                              !.cache = [k \in CacheKeys |-> NoEntry],
                              !.latest = [k \in CacheKeys |-> NeverSet]]
    /\ UNCHANGED <<rt, conv, mapper, overlap, shop, storefront, pc, dataVars>>

\* a caller sets a key
TtlSet ==
    /\ ttl.st = "ready"
    /\ \E key \in CacheKeys : \E value \in CacheValues : \E ttlSeconds \in TtlArgs :
          ttl' = [ttl EXCEPT
                    !.cache = setCache(ttl.cache, ttl.now, key, value, ttlSeconds),
                    !.latest[key] = [set |-> TRUE, value |-> value, at |-> ttl.now,
                                     ttlSeconds |-> ttlSeconds],
                    !.last = [op |-> "set", key |-> key, at |-> ttl.now, result |-> "null"]]
    /\ UNCHANGED <<rt, conv, mapper, overlap, shop, storefront, pc, dataVars>>

\* a caller reads a key
TtlGet ==
    /\ ttl.st = "ready"
    /\ \E key \in CacheKeys :
          LET got == getCache(ttl.cache, ttl.now, key)
          IN  ttl' = [ttl EXCEPT
                        !.cache = got.cache,
                        !.last = [op |-> "get", key |-> key, at |-> ttl.now,
                                  result |-> got.result]]
    /\ UNCHANGED <<rt, conv, mapper, overlap, shop, storefront, pc, dataVars>>

\* time passes between two calls
TtlTick ==
    /\ ttl.st = "ready"
    /\ \E d \in ClockSteps :
          /\ ttl.ticks < MaxTicks
          /\ ttl' = [ttl EXCEPT !.now = @ + d, !.ticks = @ + 1]
    /\ UNCHANGED <<rt, conv, mapper, overlap, shop, storefront, pc, dataVars>>

-----------------------------------------------------------------------------
(* Orders and balance of the storefront server (server.js 185-239, 289-467) *)

OrderStatuses == {"PENDING", "ACTIVE", "RECEIVED", "TIMEOUT", "CANCELED", "FINISHED"}

\* a slot without a request
NoRequest ==
    [kind |-> "none", pc |-> "idle", alone |-> TRUE,
     before |-> [status |-> "", balance |-> 0],
     internalOrder |-> [status |-> "", price |-> 0],
     data |-> "", nextStatus |-> "", price_toman |-> 0, userBalance |-> 0,
     code |-> 0, debited |-> 0, created |-> 0]

\* credits, initial and served are history: the refunds of the order, its
\* status when the server was started, and the requests accepted so far
ShopIdle ==
    [st |-> "idle", balance |-> 0, order |-> [status |-> "PENDING", price |-> 0],
     initial |-> "PENDING", orders |-> <<>>, credits |-> 0, served |-> 0,
     req |-> <<NoRequest, NoRequest>>]

Slots == {1, 2}

InFlight(f) == f.kind # "none" /\ f.pc # "done"

\* the response is sent
Respond(f, code) == [f EXCEPT !.pc = "done", !.code = code]

\* the server is up: a user with a balance and one order bought earlier
ShopOpen ==
    /\ shop.st = "idle"
    /\ \E balance \in {0, 1, 2} : \E status \in OrderStatuses :
          shop' = [ShopIdle EXCEPT !.st = "open", !.balance = balance,
                                   !.order = [status |-> status, price |-> 1],
                                   !.initial = status]
    /\ UNCHANGED <<rt, conv, mapper, overlap, ttl, storefront, pc, dataVars>>

\* a request arrives in a free slot; protect has loaded req.user
ShopRequest ==
    /\ shop.st = "open" /\ shop.served < MaxRequests
    /\ \E s \in Slots : \E kind \in {"check", "cancel", "purchase"} :
       \E price \in {1, 2} :
          /\ ~InFlight(shop.req[s])
          /\ shop' = [shop EXCEPT
                !.served = @ + 1,
                !.req = [x \in Slots |->
                    IF x = s
                    THEN [NoRequest EXCEPT
                            !.kind = kind,
                            !.pc = IF kind = "purchase" THEN "balance" ELSE "find",
                            !.alone = \A y \in Slots \ {s} : ~InFlight(shop.req[y]),
                            !.before = [status |-> shop.order.status,
                                        balance |-> shop.balance],
                            !.price_toman = IF kind = "purchase" THEN price ELSE 0,
                            !.userBalance = shop.balance]
                    ELSE IF InFlight(shop.req[x])
                         THEN [shop.req[x] EXCEPT !.alone = FALSE]
                         ELSE shop.req[x]]]
    /\ UNCHANGED <<rt, conv, mapper, overlap, ttl, storefront, pc, dataVars>>

\* what the provider may answer to a status request; "error" is a rejection
CheckAnswers == OrderStatuses \cup {"error"}

\* Order.findOne of check-order (188)
CheckFind(f, sh) == [f EXCEPT !.internalOrder = sh.order, !.pc = "provider"]

\* the provider's answer and the branch it selects (193-230)
CheckProvider(f, answer) ==
    IF answer = "error" THEN Respond(f, 400)
    ELSE IF f.internalOrder.status \notin {"PENDING", "ACTIVE"}
    THEN Respond([f EXCEPT !.data = answer], 200)
    ELSE IF answer \in {"RECEIVED", "FINISHED"}
    THEN [f EXCEPT !.data = answer, !.nextStatus = answer, !.pc = "save"]
    ELSE IF answer \in {"TIMEOUT", "CANCELED"}
    THEN [f EXCEPT !.data = answer, !.nextStatus = answer, !.pc = "refund"]
    ELSE Respond([f EXCEPT !.data = answer], 200)

\* mutant: the stored status is not looked at
CancelFindNoGuard(f, sh) == [f EXCEPT !.internalOrder = sh.order, !.pc = "provider"]

\* Order.findOne of cancel-order and the test of the stored status (418-425)
CancelFind(f, sh) ==
    IF sh.order.status \in {"CANCELED", "TIMEOUT", "FINISHED", "RECEIVED"}
    THEN Respond([f EXCEPT !.internalOrder = sh.order], 400)
    ELSE [f EXCEPT !.internalOrder = sh.order, !.pc = "provider"]

\* what the provider may answer to a cancellation: canceled, another status,
\* an error whose text names a timeout or a finished order, another error
CancelAnswers == {"CANCELED", "PENDING", "timeout", "error"}

\* the provider's answer to the cancellation (427-448, 450-455, 465)
CancelProvider(f, answer) ==
    IF answer = "CANCELED"
    THEN [f EXCEPT !.data = answer, !.nextStatus = "CANCELED", !.pc = "refund"]
    ELSE IF answer = "timeout" THEN [f EXCEPT !.data = answer, !.pc = "fallback"]
    ELSE IF answer = "error" THEN Respond(f, 400)
    ELSE Respond([f EXCEPT !.data = answer], 200)

\* the fallback of the catch block: the order is read again (456-457)
CancelFallback(f, sh) ==
    IF sh.order.status \notin {"CANCELED", "RECEIVED"}
    THEN [f EXCEPT !.internalOrder = sh.order, !.nextStatus = "TIMEOUT", !.pc = "refund"]
    ELSE Respond([f EXCEPT !.internalOrder = sh.order], 400)

\* User.findByIdAndUpdate(..., { $inc: { balance: internalOrder.price } })
\* (223, 443, 458) and the assignment of the status
Refund(sh, s) ==
    [sh EXCEPT !.balance = @ + sh.req[s].internalOrder.price,
               !.credits = @ + 1,
               !.req[s].internalOrder.status = sh.req[s].nextStatus,
               !.req[s].pc = "save"]

\* internalOrder.save() (216, 225, 228, 445, 460): the status is written
Save(sh, s) ==
    [sh EXCEPT !.order.status = IF sh.req[s].pc = "save" /\ sh.req[s].nextStatus # ""
                                THEN sh.req[s].nextStatus ELSE @,
               !.req[s] = Respond(@, 200)]

\* one step of GET /api/check-order/:id in slot s
CheckOrderStep(s) ==
    /\ shop.req[s].kind = "check"
    /\ \/ /\ shop.req[s].pc = "find"
          /\ shop' = [shop EXCEPT !.req[s] = CheckFind(@, shop)]
       \/ /\ shop.req[s].pc = "provider"
          /\ \E answer \in CheckAnswers :
                shop' = [shop EXCEPT !.req[s] = CheckProvider(@, answer)]
       \/ /\ shop.req[s].pc = "refund"
          /\ shop' = Refund(shop, s)
       \/ /\ shop.req[s].pc = "save"
          /\ shop' = Save(shop, s)

\* one step of POST /api/cancel-order/:id in slot s
CancelOrderStep(s) ==
    /\ shop.req[s].kind = "cancel"
    /\ \/ /\ shop.req[s].pc = "find"
          /\ shop' = [shop EXCEPT !.req[s] = CancelFind(@, shop)]
       \/ /\ shop.req[s].pc = "provider"
          /\ \E answer \in CancelAnswers :
                shop' = [shop EXCEPT !.req[s] = CancelProvider(@, answer)]
       \/ /\ shop.req[s].pc = "fallback"
          /\ shop' = [shop EXCEPT !.req[s] = CancelFallback(@, shop)]
       \/ /\ shop.req[s].pc = "refund"
          /\ shop' = Refund(shop, s)
       \/ /\ shop.req[s].pc = "save"
          /\ shop' = Save(shop, s)

\* req.user.balance < price_toman (328)
PurchaseBalance(f) ==
    IF f.userBalance < f.price_toman THEN Respond(f, 402) ELSE [f EXCEPT !.pc = "buy"]

\* the provider sells a number, has none, or fails (332-380, 400-411)
PurchaseBuy(f, answer) ==
    IF answer = "number" THEN [f EXCEPT !.pc = "debit"]
    ELSE IF answer = "none" THEN Respond(f, 409)
    ELSE Respond(f, 500)

\* User.findByIdAndUpdate(..., { $inc: { balance: -price_toman } }) (382)
PurchaseDebit(sh, s) ==
    [sh EXCEPT !.balance = @ - sh.req[s].price_toman,
               !.req[s].debited = sh.req[s].price_toman,
               !.req[s].pc = "create"]

\* Order.create({... price: price_toman, status: 'PENDING' ...}) (384-398), or
\* its rejection caught at 400-411
PurchaseCreate(sh, s, ok) ==
    IF ok
    THEN [sh EXCEPT !.orders = Append(@, [status |-> "PENDING",
                                          price |-> sh.req[s].price_toman]),
                    !.req[s] = Respond([@ EXCEPT !.created = 1], 200)]
    ELSE [sh EXCEPT !.req[s] = Respond(@, 500)]

\* one step of POST /api/purchase in slot s
PurchaseStep(s) ==
    /\ shop.req[s].kind = "purchase"
    /\ \/ /\ shop.req[s].pc = "balance"
          /\ shop' = [shop EXCEPT !.req[s] = PurchaseBalance(@)]
       \/ /\ shop.req[s].pc = "buy"
          /\ \E answer \in {"number", "none", "error"} :
                shop' = [shop EXCEPT !.req[s] = PurchaseBuy(@, answer)]
       \/ /\ shop.req[s].pc = "debit"
          /\ shop' = PurchaseDebit(shop, s)
       \/ /\ shop.req[s].pc = "create"
          /\ \E ok \in BOOLEAN : shop' = PurchaseCreate(shop, s, ok)

checkOrder ==
    /\ \E s \in Slots : CheckOrderStep(s)
    /\ UNCHANGED <<rt, conv, mapper, overlap, ttl, storefront, pc, dataVars>>

cancelOrder ==
    /\ \E s \in Slots : CancelOrderStep(s)
    /\ UNCHANGED <<rt, conv, mapper, overlap, ttl, storefront, pc, dataVars>>

purchase ==
    /\ \E s \in Slots : PurchaseStep(s)
    /\ UNCHANGED <<rt, conv, mapper, overlap, ttl, storefront, pc, dataVars>>

-----------------------------------------------------------------------------
(* The catalog cache of the storefront server (server.js 87-90, 650-721) *)

DefaultCacheSeconds == 300

\* what parseInt(process.env.SMSA_CACHE_TTL_SECONDS, 10) may give
CacheTtlSettings == {NaN, 0, 1}

\* (parseInt(process.env.SMSA_CACHE_TTL_SECONDS, 10) || 300) * 1000 (90)
CACHE_DURATION(parsed) == OrElse(parsed, DefaultCacheSeconds) * 1000

\* the catalogs the store may hold when it is queried
Catalogs == {<<>>, <<"a">>, <<"a", "b">>}

\* let servicesCache = null (88)
NoServicesCache == [exists |-> FALSE, docs |-> <<>>]

\* a slot without a request; queried is history: Service.find was called
NoServicesRequest == [pc |-> "idle", now |-> 0, queried |-> FALSE, code |-> 0, body |-> <<>>]

FrontIdle ==
    [st |-> "idle", now |-> 0, ticks |-> 0, duration |-> 0, store |-> <<>>,
     servicesCache |-> NoServicesCache, cacheTimestamp |-> 0,
     req |-> <<NoServicesRequest, NoServicesRequest>>]

\* mutant: a cache as old as CACHE_DURATION is still served
FreshInclusive(cache, timestamp, now, duration) ==
    cache.exists /\ now - timestamp <= duration

\* servicesCache && now - cacheTimestamp < CACHE_DURATION (703)
Fresh(cache, timestamp, now, duration) ==
    cache.exists /\ now - timestamp < duration

\* the server is started (88-90); the clock reads some time after the epoch
FrontStart ==
    /\ storefront.st = "idle"
    /\ \E parsed \in CacheTtlSettings : \E catalog \in Catalogs :
          storefront' = [FrontIdle EXCEPT !.st = "up", !.now = 1000,
                                          !.duration = CACHE_DURATION(parsed),
                                          !.store = catalog]
    /\ UNCHANGED <<rt, conv, mapper, overlap, shop, ttl, pc, dataVars>>

\* the update script publishes another catalog
FrontPublish ==
    /\ storefront.st = "up"
    /\ \E catalog \in Catalogs \ {storefront.store} :
          storefront' = [storefront EXCEPT !.store = catalog]
    /\ UNCHANGED <<rt, conv, mapper, overlap, shop, ttl, pc, dataVars>>

\* time passes
FrontTick ==
    /\ storefront.st = "up" /\ storefront.ticks < MaxTicks
    /\ \E d \in {1000, 299000} :
          storefront' = [storefront EXCEPT !.now = @ + d, !.ticks = @ + 1]
    /\ UNCHANGED <<rt, conv, mapper, overlap, shop, ttl, pc, dataVars>>

\* a request arrives: const now = Date.now() (652) and the test at 703-706
ServicesArrive(s) ==
    /\ storefront.req[s].pc \in {"idle", "done"}
    /\ storefront' = [storefront EXCEPT !.req[s] =
          IF Fresh(storefront.servicesCache, storefront.cacheTimestamp,
                   storefront.now, storefront.duration)
          THEN [pc |-> "done", now |-> storefront.now, queried |-> FALSE,
                code |-> 200, body |-> storefront.servicesCache.docs]
          ELSE [pc |-> "query", now |-> storefront.now, queried |-> FALSE,
                code |-> 0, body |-> <<>>]]

\* Service.find({}).lean() settles (708-720)
ServicesQuery(s) ==
    /\ storefront.req[s].pc = "query"
    /\ \/ storefront' = [storefront EXCEPT
              !.servicesCache = [exists |-> TRUE, docs |-> storefront.store],
              !.cacheTimestamp = storefront.req[s].now,
              !.req[s] = [@ EXCEPT !.pc = "done", !.queried = TRUE, !.code = 200,
                                   !.body = storefront.store]]
       \/ storefront' = [storefront EXCEPT
              !.req[s] = [@ EXCEPT !.pc = "done", !.queried = TRUE, !.code = 500]]

\* one step of GET /api/services
getServices ==
    /\ storefront.st = "up"
    /\ \E s \in Slots : ServicesArrive(s) \/ ServicesQuery(s)
    /\ UNCHANGED <<rt, conv, mapper, overlap, shop, ttl, pc, dataVars>>

-----------------------------------------------------------------------------
(* Two runs of the publisher on one store (setup-indexes.js 815-829) *)

\* swapped and published are history: the rename of the run has succeeded, and
\* what it put in the live catalog
OverlapRun(batch) ==
    [pc |-> "clear", batch |-> batch, failedAt |-> "none", swapped |-> FALSE,
     published |-> <<>>]

OverlapIdle == [st |-> "idle", run |-> <<>>]

\* an entry of a batch
OverlapEntry(id, price) == [id |-> id, price_toman |-> price, success_rate |-> 0]

\* what a run may have formatted: the run that started later saw other prices
OverlapBatches(price) ==
    {<<OverlapEntry("srv_b_a_any_5sim", price)>>,
     <<OverlapEntry("srv_b_a_any_5sim", price),
       OverlapEntry("srv_b_a_any_sms-activate", price)>>}

\* the second run is started while the first has not reached its publisher
OverlapStart ==
    /\ overlap.st = "idle"
    /\ \E first \in OverlapBatches(1) : \E second \in OverlapBatches(2) :
          overlap' = [st |-> "running",
                      run |-> <<OverlapRun(first), OverlapRun(second)>>]
    /\ \E old \in {NoCollection,
                   [exists |-> TRUE, docs |-> <<OverlapEntry("srv_b_a_any_5sim", 3)>>]} :
          services' = old
    /\ service_temps' = NoCollection
    /\ UNCHANGED <<rt, conv, mapper, shop, ttl, storefront, pc, rateVars, fetchVars, runVars,
                   histVars>>

\* TempService.deleteMany({}) of run r (816-817)
OverlapClear(r) ==
    /\ overlap.st = "running" /\ overlap.run[r].pc = "clear"
    /\ service_temps' = [exists |-> TRUE, docs |-> <<>>]
    /\ overlap' = [overlap EXCEPT !.run[r].pc = "insert"]
    /\ UNCHANGED services

\* TempService.insertMany(formattedServices, { ordered: false }) of run r (820)
OverlapInsert(r) ==
    /\ overlap.st = "running" /\ overlap.run[r].pc = "insert"
    /\ LET all == service_temps.docs \o SelectSeq(overlap.run[r].batch, ValidDoc)
       IN  \/ /\ service_temps' = [exists |-> TRUE, docs |-> all]
              /\ overlap' = [overlap EXCEPT !.run[r].pc = "drop"]
           \/ /\ WithoutDuplicateIds(all) # all
              /\ service_temps' = [exists |-> TRUE, docs |-> WithoutDuplicateIds(all)]
              /\ overlap' = [overlap EXCEPT !.run[r].pc = "done",
                                            !.run[r].failedAt = "duplicate"]
    /\ UNCHANGED services

\* dropCollection('services').catch(...) of run r (824-826)
OverlapDrop(r) ==
    /\ overlap.st = "running" /\ overlap.run[r].pc = "drop"
    /\ services' = NoCollection
    /\ overlap' = [overlap EXCEPT !.run[r].pc = "rename"]
    /\ UNCHANGED service_temps

\* renameCollection('service_temps', 'services') of run r (828)
OverlapRename(r) ==
    /\ overlap.st = "running" /\ overlap.run[r].pc = "rename"
    /\ IF service_temps.exists /\ ~services.exists
       THEN /\ services' = [exists |-> TRUE, docs |-> service_temps.docs]
            /\ service_temps' = NoCollection
            /\ overlap' = [overlap EXCEPT !.run[r].pc = "done",
                                          !.run[r].swapped = TRUE,
                                          !.run[r].published = service_temps.docs]
       ELSE /\ UNCHANGED storeVars
            /\ overlap' = [overlap EXCEPT !.run[r].pc = "done",
                                          !.run[r].failedAt = "rename"]

OverlapStep ==
    /\ \E r \in {1, 2} :
          OverlapClear(r) \/ OverlapInsert(r) \/ OverlapDrop(r) \/ OverlapRename(r)
    /\ UNCHANGED <<rt, conv, mapper, shop, ttl, storefront, pc, rateVars, fetchVars, runVars,
                   histVars>>

-----------------------------------------------------------------------------
(* The pipeline, run after run *)

Init ==
    /\ rt = RtIdle
    /\ conv = ConvIdle
    /\ mapper = MapperIdle
    /\ overlap = OverlapIdle /\ shop = ShopIdle /\ ttl = TtlIdle /\ storefront = FrontIdle
    /\ pc = "idle"
    /\ usdToTomanRate = 0 /\ rubToTomanRate = 0
    /\ fetchA = FetchIdle /\ fetchB = FetchBIdle
    /\ fiveSimData = <<>> /\ smsActivateServicesData = <<>>
    /\ allServicesRaw = <<>> /\ formattedServices = <<>>
    /\ services = NoCollection /\ service_temps = NoCollection
    /\ upstream = NoUpstream
    /\ runs = 0
    /\ prior = NoCollection
    /\ failedAt = "none"
    /\ streak = [base |-> NoCollection, n |-> 0]

Next == RunStart \/ runUpdate \/ FetchAInvoke \/ FetchAWake \/ fetchSmsActivatePrices

Spec == Init /\ [][Next]_vars

-----------------------------------------------------------------------------
(* The last run of the pipeline, every started step being finished: a remote
   call answers or fails, a timer fires, a continuation that is ready runs *)

\* the runs before it failed at the connection
InitLive ==
    /\ rt = RtIdle
    /\ conv = ConvIdle
    /\ mapper = MapperIdle
    /\ overlap = OverlapIdle /\ shop = ShopIdle /\ ttl = TtlIdle /\ storefront = FrontIdle
    /\ pc = "done"
    /\ usdToTomanRate = FallbackUsd /\ rubToTomanRate = FallbackRub
    /\ fetchA = FetchIdle /\ fetchB = FetchBIdle
    /\ fiveSimData = <<>> /\ smsActivateServicesData = <<>>
    /\ allServicesRaw = <<>> /\ formattedServices = <<>>
    /\ services = NoCollection /\ service_temps = NoCollection
    /\ upstream = NoUpstream
    /\ runs = MaxRuns - 1
    /\ prior = NoCollection
    /\ failedAt = "connect"
    /\ streak = [base |-> NoCollection, n |-> MaxRuns - 2]

SpecLive == InitLive /\ [][Next]_vars /\ WF_vars(Next)

-----------------------------------------------------------------------------
(* The normalizer and the shadow insert over every fetch result and rates *)

InitNorm ==
    /\ rt = RtIdle
    /\ conv = ConvIdle
    /\ mapper = MapperIdle
    /\ overlap = OverlapIdle /\ shop = ShopIdle /\ ttl = TtlIdle /\ storefront = FrontIdle
    /\ pc = "flatten"
    /\ \E src \in RateSources :
          /\ usdToTomanRate = RatesFrom(src)[1] /\ rubToTomanRate = RatesFrom(src)[2]
          /\ upstream = [NoUpstream EXCEPT !.rates = src]
    /\ \E f \in FetchResults(MaxRecords) :
          fiveSimData = f.fiveSim /\ smsActivateServicesData = f.sms
    /\ fetchA = FetchIdle /\ fetchB = FetchBIdle
    /\ allServicesRaw = <<>> /\ formattedServices = <<>>
    /\ services = NoCollection /\ service_temps = NoCollection
    /\ runs = 1
    /\ prior = NoCollection
    /\ failedAt = "none"
    /\ streak = [base |-> NoCollection, n |-> 0]

NextNorm == RunFlatten \/ RunNormalize \/ RunClearTemp \/ RunInsertMany

SpecNorm == InitNorm /\ [][NextNorm]_vars

-----------------------------------------------------------------------------
(* Properties of the publisher *)

PublishStages == {"clear", "insert", "drop", "rename", "count"}

\* the rename of this run has succeeded
Published ==
    \/ pc = "count"
    \/ pc \in {"finally", "done"} /\ failedAt \in {"none", "count"}

\* C1: at every instant of a publish a reader of the live catalog gets either
\* the whole prior catalog or the whole new one, never an empty or partial one
AtomicVisibility ==
    pc \in PublishStages =>
        FindAll(services) \in {FindAll(prior), SelectSeq(formattedServices, ValidDoc)}

\* C2: a run that fails at connect, fetch or normalize leaves the live catalog
\* as it was before the run, and as it was before the first run of an unbroken
\* row of such failures
PrePublishFailureKeepsCatalog ==
    failedAt \in PrePublish => services = prior /\ services = streak.base

PrePublishFailureKeepsCatalogWitness ==
    /\ pc = "done" /\ failedAt = "normalize"
    /\ streak.n >= 1
    /\ services.exists /\ services.docs # <<>>

\* C3: a swap that fails, in the shadow insert or in the drop and rename,
\* leaves the prior catalog readable and whole
SwapFailureKeepsCatalog ==
    failedAt \in {"insert", "rename"} => FindAll(services) = FindAll(prior)

\* both rates of this run are numbers
RatesAreNumbers == IsNum(usdToTomanRate) /\ IsNum(rubToTomanRate)

KnownEntries ==
    Range(formattedServices) \cup Range(services.docs) \cup Range(service_temps.docs)
        \cup Range(prior.docs)

\* C10: the id of an entry is a function of (provider, service, country,
\* operator) alone: across runs, rates, prices and stock the same tuple always
\* carries the same id
IdentityFunctionOfTokens ==
    \A e \in KnownEntries : \A f \in KnownEntries :
        (e.provider = f.provider /\ e.service = f.service /\ e.country = f.country
            /\ e.operator = f.operator) => e.id = f.id

IdentityFunctionOfTokensWitness ==
    /\ Published
    /\ \E e \in Range(prior.docs) : \E f \in Range(services.docs) :
          /\ e.provider = f.provider /\ e.service = f.service /\ e.country = f.country
          /\ e.operator = f.operator
          /\ e.price_toman # f.price_toman /\ e.available # f.available

\* C18: the rejection of single documents by the shadow insert, for failing
\* validation or for repeating an id, does not stop the run: the others are
\* inserted and the run goes on to the swap
InsertToleratesRejections ==
    /\ pc = "drop" =>
          \A e \in Range(formattedServices) :
              (IsNum(e.price_toman) /\ IsNum(e.success_rate))
                  => e \in Range(service_temps.docs)
    /\ failedAt # "duplicate"

\* the process has ended: with code 1 in "fatal", with code 0 in "done"
Exited == pc \in {"fatal", "done"}

\* C20: the process ends with a code other than 0 only when the connection to
\* the store could not be made; every other outcome disconnects and ends with 0
FatalExitOnlyOnConnect ==
    /\ pc = "fatal" => failedAt = "connect"
    /\ (Exited /\ failedAt # "connect") => pc = "done"

StageRank(p) ==
    CASE p = "rates" -> 1 [] p = "connect" -> 2 [] p = "fetch" -> 3
      [] p = "flatten" -> 4 [] p = "normalize" -> 5 [] p = "clear" -> 6
      [] p = "insert" -> 7 [] p = "drop" -> 8 [] p = "rename" -> 9
      [] p = "count" -> 10 [] p = "finally" -> 11 [] p = "done" -> 12
      [] OTHER -> 0

\* C21: within one run the rates are refreshed before the connection, both
\* fetches have resolved before the records are flattened and formatted, the
\* formatting is finished before the shadow is cleared, the live collection is
\* dropped and replaced only after the bulk insert, and no stage is entered a
\* second time
StageOrdering ==
    [][/\ runs' = runs => StageRank(pc') >= StageRank(pc)
       /\ (pc' # pc /\ pc' = "connect") => pc = "rates"
       /\ (pc' # pc /\ pc' = "fetch") => pc = "connect"
       /\ (pc' # pc /\ pc' = "flatten") =>
             pc = "fetch" /\ fetchA.st = "resolved" /\ fetchB.st = "resolved"
       /\ (pc' # pc /\ pc' = "normalize") => pc = "flatten"
       /\ (pc' # pc /\ pc' = "clear") =>
             /\ pc = "normalize"
             /\ formattedServices' =
                    FormatServices(allServicesRaw, usdToTomanRate, rubToTomanRate)
       /\ (pc' # pc /\ pc' = "insert") => pc = "clear"
       /\ (pc' # pc /\ pc' = "drop") =>
             /\ pc = "insert"
             /\ service_temps'.docs = SelectSeq(formattedServices, ValidDoc)
       /\ services' # services => pc \in {"drop", "rename"}
       /\ (pc' # pc /\ pc' = "rename") => pc = "drop"
       /\ (pc' # pc /\ pc' = "count") => pc = "rename"
       /\ fetchVars' # fetchVars => pc \in {"idle", "done", "fatal", "connect", "fetch", "finally"}
      ]_vars

\* a second run has gone through every stage and published a catalog
StageOrderingWitness ==
    /\ runs = 2 /\ pc = "done" /\ failedAt = "none"
    /\ services.exists /\ services.docs # <<>>
    /\ prior.exists

\* C22: in a run that finds no live collection the drop fails with
\* NamespaceNotFound, the failure is ignored, the rename is not blocked, and a
\* run whose rename succeeds ends with the live catalog holding the entries
\* written to the shadow
FirstRunPublishes ==
    ~prior.exists =>
        /\ failedAt # "drop"
        /\ pc = "rename" => service_temps.exists /\ ~services.exists
        /\ Published =>
              services = [exists |-> TRUE, docs |-> SelectSeq(formattedServices, ValidDoc)]

\* the first run of all has published a catalog that is not empty
FirstRunPublishesWitness ==
    /\ runs = 1 /\ ~prior.exists
    /\ pc = "done" /\ failedAt = "none"
    /\ services.exists /\ services.docs # <<>>

\* C26: when the rate source cannot be reached both rates get the fallback
\* value, that of the environment or else the built-in default, and the run
\* goes on; the refresh of the rates never makes a run fail
RateFallback ==
    /\ failedAt # "rates"
    /\ (pc \notin {"idle", "rates", "fatal"} /\ ~upstream.rates.ok) =>
          /\ usdToTomanRate =
                IF IsNum(upstream.rates.env.usd) THEN upstream.rates.env.usd ELSE 58000
          /\ rubToTomanRate =
                IF IsNum(upstream.rates.env.rub) THEN upstream.rates.env.rub ELSE 630

\* a run without the rate source and without the environment has published
\* entries priced with the built-in defaults
RateFallbackWitness ==
    /\ ~upstream.rates.ok /\ ~IsNum(upstream.rates.env.usd)
    /\ pc = "done" /\ failedAt = "none"
    /\ usdToTomanRate = 58000 /\ rubToTomanRate = 630
    /\ services.exists /\ services.docs # <<>>

\* C31: once updateCurrencyRates has returned both rates are numbers above
\* zero, whether the source failed, answered, or answered without usd1 or
\* rub1; so no entry with a price that is not a number gets past the price
\* filter to the publisher
RatesPositiveAfterRefresh ==
    pc \notin {"idle", "rates", "fatal"} =>
        /\ IsNum(usdToTomanRate) /\ usdToTomanRate > 0
        /\ IsNum(rubToTomanRate) /\ rubToTomanRate > 0
        /\ \A e \in Range(formattedServices) : IsNum(e.price_toman)

-----------------------------------------------------------------------------
(* Properties of the fetch *)

\* the records of the services from k on whose lookup did not fail
RECURSIVE SmsRecordsExcept(_, _, _)
SmsRecordsExcept(up, failed, k) ==
    IF k > Len(up.dir.services) THEN <<>>
    ELSE (IF k \in failed THEN <<>>
          ELSE SmsRecordsOf(up.dir.services[k], up.bodies[up.dir.services[k].code],
                            smsActivateCountries, 1))
         \o SmsRecordsExcept(up, failed, k + 1)

\* C16: a failed price lookup of one service does not reject
\* fetchSmsActivatePrices, and what it returns are the records of every service
\* whose lookup succeeded, the failed ones having none
PerServiceIsolation ==
    /\ fetchB.step = "prices" => fetchB.st # "rejected"
    /\ fetchB.st = "resolved" =>
          fetchB.acc = SmsRecordsExcept(upstream, fetchB.failed, 1)

PerServiceIsolationWitness ==
    /\ fetchB.st = "resolved"
    /\ fetchB.failed # {}
    /\ fetchB.acc # <<>>

\* C17: when the provider-A call or the provider-B directory call fails, or
\* the directory answers with a status other than 'success', the run never
\* enters the normalizer or the publisher and the live catalog stays as it was
WholeProviderFailureAbstains ==
    /\ "rejected" \in {fetchA.st, fetchB.st} =>
          /\ pc \in {"fetch", "finally", "done"}
          /\ services = prior
          /\ formattedServices = <<>>
    /\ upstream.dir.status # "success" =>
          /\ pc \notin {"flatten", "normalize"} \cup PublishStages
          /\ services = prior

WholeProviderFailureAbstainsWitness ==
    /\ pc = "done" /\ failedAt = "fetch"
    /\ fetchA.st = "resolved" /\ fetchB.st = "rejected"
    /\ services.docs # <<>>

\* the per-service lookups of provider B that were issued and have not settled
Outstanding(f) == f.started \ (f.succeeded \cup f.failed)

\* C24: the per-service lookups of provider B are issued one after the other:
\* at most one is outstanding, and the lookup of a service is issued only when
\* those of all the services before it have settled
SequentialLookups ==
    /\ Cardinality(Outstanding(fetchB)) <= 1
    /\ \A j \in fetchB.started :
          \A i \in 1..(j - 1) : i \in fetchB.succeeded \cup fetchB.failed
    /\ (fetchB.st = "pending" /\ fetchB.step = "prices") =>
          Outstanding(fetchB) = {fetchB.k}

\* the lookup of the second service is outstanding, that of the first has
\* settled, and the fetch of provider A is outstanding too
SequentialLookupsWitness ==
    /\ pc = "fetch"
    /\ fetchA.st = "pending"
    /\ fetchB.st = "pending" /\ fetchB.step = "prices"
    /\ Outstanding(fetchB) = {2}
    /\ 1 \in fetchB.succeeded

-----------------------------------------------------------------------------
(* Properties of the normalizer and merger *)

SameTokens(e, s) ==
    /\ e.provider = s.provider /\ e.service = s.service
    /\ e.country = s.country /\ e.operator = s.operator

\* C6: every entry written to the catalog has a price above zero and is
\* available exactly when the count its provider reported is above zero
WrittenEntriesPriced ==
    \A i \in DOMAIN service_temps.docs :
        LET e == service_temps.docs[i]
        IN  /\ IsNum(e.price_toman) /\ e.price_toman > 0
            /\ \E j \in DOMAIN allServicesRaw :
                  /\ SameTokens(e, allServicesRaw[j])
                  /\ e.available = (allServicesRaw[j].count > 0)

WrittenEntriesPricedWitness ==
    /\ pc = "drop"
    /\ \E i \in DOMAIN service_temps.docs : ~service_temps.docs[i].available
    /\ Len(service_temps.docs) < Len(allServicesRaw)

\* C7: no two entries of one run carry the same id (rates being numbers)
UniqueIds ==
    RatesAreNumbers =>
    \A i \in DOMAIN formattedServices : \A j \in DOMAIN formattedServices :
        i # j => formattedServices[i].id # formattedServices[j].id

\* a raw record with a name, a country the resolver knows and a price above zero
Offered(s) ==
    /\ CanonicalEnglishName(s) # <<>>
    /\ getCountryDataByCanonicalName(trim(toLowerCase(s.country))) # NoCountry
    /\ LET base == BasePriceToman(s, usdToTomanRate, rubToTomanRate)
       IN  IsNum(base) /\ base > 0

\* C8: when both providers offer the same service in the same country at a
\* price above zero, the output holds an entry of each provider
ProviderIsolation ==
    pc \in {"clear", "insert", "drop", "finally"} =>
        \A i \in DOMAIN allServicesRaw : \A j \in DOMAIN allServicesRaw :
            LET a == allServicesRaw[i]
                b == allServicesRaw[j]
            IN  (/\ a.provider = "5sim" /\ b.provider = "sms-activate"
                 /\ trim(toLowerCase(a.service)) = trim(toLowerCase(b.service))
                 /\ generateCanonicalName(a.country) = generateCanonicalName(b.country)
                 /\ Offered(a) /\ Offered(b))
                => /\ \E e \in Range(formattedServices) : SameTokens(e, a)
                   /\ \E e \in Range(formattedServices) : SameTokens(e, b)

ProviderIsolationWitness ==
    /\ pc = "clear"
    /\ \E i \in DOMAIN allServicesRaw : \E j \in DOMAIN allServicesRaw :
          LET a == allServicesRaw[i]
              b == allServicesRaw[j]
          IN  /\ a.provider = "5sim" /\ b.provider = "sms-activate"
              /\ trim(toLowerCase(a.service)) = trim(toLowerCase(b.service))
              /\ generateCanonicalName(a.country) = generateCanonicalName(b.country)
              /\ Offered(a) /\ Offered(b)
              /\ \E e \in Range(formattedServices) : \E f \in Range(formattedServices) :
                    /\ SameTokens(e, a) /\ SameTokens(f, b)
                    /\ MapKey(e) = MapKey(f)

\* number of positions of q holding e
CountIn(q, e) == Cardinality({i \in DOMAIN q : q[i] = e})

\* C11: the merger keeps every normalized entry exactly once: the output has
\* as many entries as raw records passed the drop filters, and holds the same
\* entries the same number of times, however they fall into groups
MergerKeepsEveryEntry ==
    pc \in {"clear", "insert", "drop", "finally"} =>
        LET kept == SelectSeq(allServicesRaw,
                        LAMBDA s : ~Skipped(s, usdToTomanRate, rubToTomanRate))
            normalized == [i \in 1..Len(kept) |->
                              FormatService(kept[i], usdToTomanRate, rubToTomanRate)]
        IN  /\ Len(formattedServices) = Len(kept)
            /\ \A e \in Range(normalized) \cup Range(formattedServices) :
                  CountIn(formattedServices, e) = CountIn(normalized, e)

MergerKeepsEveryEntryWitness ==
    /\ pc = "clear"
    /\ \E i \in DOMAIN formattedServices : \E j \in DOMAIN formattedServices :
          /\ i # j
          /\ MapKey(formattedServices[i]) = MapKey(formattedServices[j])
          /\ formattedServices[i] # formattedServices[j]

\* the rate of the provider of a record or entry, and the other one
OwnRate(s) == IF s.provider = "5sim" THEN rubToTomanRate ELSE usdToTomanRate

OtherRates == {r[1] : r \in RatePairs} \cup {r[2] : r \in RatePairs}

\* C12: a 5sim record is converted with the RUB rate alone and an sms-activate
\* record with the USD rate alone: whether a record is dropped and the entry it
\* gives are the same whatever the other provider's rate is, and the price is
\* the one computed from the provider's own rate
CurrencySeparation ==
    pc = "clear" =>
        \A j \in DOMAIN allServicesRaw : \A x \in OtherRates :
            LET s == allServicesRaw[j]
                usd == IF s.provider = "5sim" THEN x ELSE usdToTomanRate
                rub == IF s.provider = "5sim" THEN rubToTomanRate ELSE x
            IN  /\ Skipped(s, usd, rub) = Skipped(s, usdToTomanRate, rubToTomanRate)
                /\ ~Skipped(s, usd, rub) =>
                      /\ FormatService(s, usd, rub) \in Range(formattedServices)
                      /\ FormatService(s, usd, rub).price_toman
                            = Ceil14(Times(NumberOrZero(s.price), OwnRate(s)))

CurrencySeparationWitness ==
    /\ pc = "clear"
    /\ ~IsNum(usdToTomanRate) /\ IsNum(rubToTomanRate)
    /\ \E e \in Range(formattedServices) :
          e.provider = "5sim" /\ IsNum(e.price_toman) /\ e.price_toman > 0
    /\ \E e \in Range(formattedServices) :
          e.provider = "sms-activate" /\ ~IsNum(e.price_toman)

\* C14: with a numeric rate, the price of an entry is the least integer not
\* below cost * rate * 1.4 for a record of that entry, and a record whose
\* cost * rate is zero or below (cost zero, negative or not a number) gives no
\* entry
PipelinePriceFormula ==
    pc = "clear" =>
        /\ \A e \in Range(formattedServices) :
              IsNum(OwnRate(e)) =>
                  \E j \in DOMAIN allServicesRaw :
                      LET s == allServicesRaw[j]
                          x14 == NumberOrZero(s.price) * OwnRate(s) * 14
                      IN  /\ SameTokens(e, s)
                          /\ e.price_toman * 10 >= x14
                          /\ (e.price_toman - 1) * 10 < x14
                          /\ e.price_toman > 0
        /\ \A j \in DOMAIN allServicesRaw :
              LET s == allServicesRaw[j]
              IN  (IsNum(OwnRate(s)) /\ NumberOrZero(s.price) * OwnRate(s) <= 0)
                  => \A e \in Range(formattedServices) : ~SameTokens(e, s)

PipelinePriceFormulaWitness ==
    /\ pc = "clear"
    /\ \E e \in Range(formattedServices) :
          IsNum(e.price_toman) /\ e.price_toman = 3
    /\ \E j \in DOMAIN allServicesRaw :
          /\ IsNum(usdToTomanRate) /\ usdToTomanRate > 0
          /\ allServicesRaw[j].provider = "sms-activate"
          /\ allServicesRaw[j].price = -1

\* the resolver knows no country for the token of this record
Unmappable(s) == getCountryDataByCanonicalName(trim(toLowerCase(s.country))) = NoCountry

\* C15: a record whose country the resolver does not know gives no entry and
\* is counted by the run: its code is in the set the run reports for
\* observability
UnmappedCountryCounted ==
    pc = "clear" =>
        \A j \in DOMAIN allServicesRaw :
            Unmappable(allServicesRaw[j]) =>
                /\ \A e \in Range(formattedServices) : ~SameTokens(e, allServicesRaw[j])
                /\ allServicesRaw[j].service \in UnknownServiceCodes(allServicesRaw)

\* the leaves of a provider-A payload, each with its country, service and
\* operator label
LeavesOf(data) ==
    UNION {UNION {IF data[c][sv].direct
                  THEN {<<c, sv, <<"any">>, data[c][sv].leaf>>}
                  ELSE {<<c, sv, op, data[c][sv].ops[op]>> : op \in DOMAIN data[c][sv].ops}
                  : sv \in DOMAIN data[c]} : c \in DOMAIN data}

FiveSimRaw == SelectSeq(allServicesRaw, LAMBDA s : s.provider = "5sim")

\* C23: the flattening of the provider-A payload gives one record with operator
\* 'any' for a direct leaf and one record per operator key otherwise; there are
\* as many provider-A records as leaves, and each record carries the cost,
\* count and rate of its leaf
AdapterAFlattening ==
    (pc # "flatten" /\ failedAt # "normalize") =>
        /\ Len(FiveSimRaw) = Cardinality(LeavesOf(fiveSimData))
        /\ \A t \in LeavesOf(fiveSimData) :
              Cardinality({i \in DOMAIN FiveSimRaw :
                  /\ FiveSimRaw[i].country = t[1]
                  /\ FiveSimRaw[i].service = t[2]
                  /\ FiveSimRaw[i].operator = t[3]
                  /\ FiveSimRaw[i].price = t[4].cost
                  /\ FiveSimRaw[i].count = t[4].count
                  /\ FiveSimRaw[i].rate = t[4].rate}) = 1

\* a payload with a direct leaf and an operator-keyed entry has been flattened
AdapterAFlatteningWitness ==
    /\ pc = "normalize"
    /\ \E c \in DOMAIN fiveSimData : \E sv \in DOMAIN fiveSimData[c] :
          fiveSimData[c][sv].direct
    /\ \E c \in DOMAIN fiveSimData : \E sv \in DOMAIN fiveSimData[c] :
          ~fiveSimData[c][sv].direct /\ <<"o">> \in DOMAIN fiveSimData[c][sv].ops
    /\ Len(FiveSimRaw) = 2

\* the English name of a raw record: the directory's name, else the code
EnglishName(s) == IF s.service_name # <<>> THEN s.service_name ELSE s.service

\* servicePriority has no entry for the record, neither under the canonical
\* key of its English name nor under its code
Unranked(s) ==
    /\ EnglishName(s) # <<>>
    /\ generateCanonicalName(EnglishName(s)) \notin DOMAIN servicePriority
    /\ trim(toLowerCase(s.service)) \notin DOMAIN servicePriority

\* every word of the name with its first letter in upper case and the others
\* in lower case
IsTitleCaseOf(display, name) ==
    /\ Len(display) = Len(name)
    /\ \A k \in 1..Len(name) :
          display[k] = IF k = 1 \/ name[k - 1] = " "
                       THEN UpperChar(name[k]) ELSE LowerChar(name[k])

UnknownCodePrefixed ==
    pc = "clear" =>
        \A j \in DOMAIN allServicesRaw :
            LET s == allServicesRaw[j]
            IN  (s.service_name = <<>> /\ Unranked(s) /\ Offered(s)) =>
                  \E e \in Range(formattedServices) :
                      /\ SameTokens(e, s)
                      /\ e.service_persian = <<"Unknown-">> \o s.service

-----------------------------------------------------------------------------
(* The price converter on its own *)

ConvertCall ==
    /\ \E price \in 0..MaxPrice : \E currency \in Currencies : \E rates \in ConvRates :
          conv' = [st |-> "done", price |-> price, currency |-> currency, rates |-> rates,
                   result |-> convertToToman(price, currency, rates)]
    /\ UNCHANGED <<rt, mapper, sideVars, pc, dataVars>>

SpecConvert == Init /\ [][ConvertCall]_vars

\* the rate the call is to use
ConvRate == IF conv.currency = "RUB" THEN conv.rates.rub
            ELSE IF conv.currency = "USD" THEN conv.rates.usd ELSE 1

\* C13: with margin 0.4 and unit 100, convertToToman returns the least multiple
\* of 100 not below price * rate * 1.4, the rate being rates.rub for 'RUB',
\* rates.usd for 'USD' and 1 otherwise; 10 at RUB 150 gives 2100, 1 at USD
\* 50000 gives 70000
ConvertToTomanFormula ==
    (conv.st = "done" /\ IsNum(ConvRate)) =>
        /\ conv.result % 100 = 0
        /\ conv.result * 10 >= conv.price * ConvRate * 14
        /\ (conv.result - 100) * 10 < conv.price * ConvRate * 14
        /\ (conv.price = 10 /\ conv.currency = "RUB" /\ conv.rates.rub = 150)
              => conv.result = 2100
        /\ (conv.price = 1 /\ conv.currency = "USD" /\ conv.rates.usd = 50000)
              => conv.result = 70000

ConvertToTomanFormulaWitness ==
    /\ conv.st = "done"
    /\ conv.price = 10 /\ conv.currency = "RUB" /\ conv.rates.rub = 150
    /\ ~IsNum(conv.rates.usd)
    /\ conv.result = 2100

-----------------------------------------------------------------------------
(* The country resolver on its own *)

NextResolver == MapperLoad \/ MapperProvider \/ MapperInternal

SpecResolver == Init /\ [][NextResolver]_vars

\* the ids whose provider-supplied name has canonical key c, a translation
\* and a code
ProvidedBy(c) ==
    {id \in DOMAIN mapper.countries :
        /\ generateCanonicalName(mapper.countries[id]) = c
        /\ c \in DOMAIN mapper.translations /\ c \in DOMAIN mapper.codes}

\* the keys of the internal table with canonical key c and a code
TranslatedBy(c) ==
    {key \in DOMAIN mapper.translations :
        generateCanonicalName(key) = c /\ c \in DOMAIN mapper.codes}

\* a key that both tables have carries the provider's record
ProviderTakesPrecedence ==
    \A c \in DOMAIN mapper.map :
        ProvidedBy(c) # {} =>
            \E id \in ProvidedBy(c) :
                mapper.map[c] = [persian |-> mapper.translations[c],
                                 code |-> mapper.codes[c],
                                 original |-> mapper.countries[id]]

\* an internal entry is present only for a key the provider list did not give
InternalOnlyIfAbsent ==
    \A c \in DOMAIN mapper.map :
        ProvidedBy(c) = {} =>
            \E key \in TranslatedBy(c) :
                mapper.map[c] = [persian |-> mapper.translations[key],
                                 code |-> mapper.codes[c], original |-> key]

\* visiting the keys of the internal table in another order gives the same map
InternalOrderIrrelevant ==
    \A keys \in Orders(DOMAIN mapper.translations) :
        LET provided == {c \in DOMAIN mapper.map : ProvidedBy(c) # {}}
            first == [c \in provided |-> mapper.map[c]]
            other == InternalLoop(first, keys, mapper.translations, mapper.codes, 1)
        IN  /\ DOMAIN other = DOMAIN mapper.map
            /\ \A c \in DOMAIN other : other[c] = mapper.map[c]

ResolverPrecedence ==
    mapper.st = "built" =>
        /\ ProviderTakesPrecedence
        /\ InternalOnlyIfAbsent
        /\ DOMAIN mapper.map = {c \in DOMAIN mapper.codes :
                                   ProvidedBy(c) # {} \/ TranslatedBy(c) # {}}

\* a key of both tables has been resolved
ResolverPrecedenceWitness ==
    /\ mapper.st = "built"
    /\ \E c \in DOMAIN mapper.map : ProvidedBy(c) # {} /\ TranslatedBy(c) # {}
    /\ \E c \in DOMAIN mapper.map : ProvidedBy(c) = {}

-----------------------------------------------------------------------------
(* The retry executor on its own *)

InitRetry == Init

RetryStart ==
    /\ rt.st = "idle"
    /\ \E n \in 0..MaxRetriesArg : rt' = RtStart(n)
    /\ UNCHANGED <<conv, mapper, sideVars, pc, dataVars>>

RetryInvoke ==
    /\ rt.st = "call"
    /\ \E o \in Outcomes : \E j \in JitterValues(DefaultJitter) : rt' = RtInvoke(rt, o, j)
    /\ UNCHANGED <<conv, mapper, sideVars, pc, dataVars>>

RetryWake ==
    /\ rt.st = "sleep"
    /\ rt' = RtWake(rt)
    /\ UNCHANGED <<conv, mapper, sideVars, pc, dataVars>>

NextRetry == RetryStart \/ RetryInvoke \/ RetryWake

SpecRetry == InitRetry /\ [][NextRetry]_vars

Last(h) == h[Len(h)]

\* C4: with maxAttempts = 3, an operation that fails with status 500 exactly
\* twice and then succeeds is answered with the success after exactly 3
\* invocations (withRetry neither gives up nor stops before the third); an
\* operation that always fails with 500 (or 429) ends with that error raised
\* after exactly maxAttempts invocations, and fn is never invoked more often.
RetryBound ==
    /\ rt.calls = Len(rt.hist)
    /\ rt.calls <= rt.retries
    /\ (rt.retries = DefaultRetries /\ rt.hist \in {<<Err(500)>>, <<Err(500), Err(500)>>})
          => rt.st \in {"sleep", "call"}
    /\ (rt.retries = DefaultRetries /\ rt.hist = <<Err(500), Err(500), Ok200>>)
          => rt.st = "returned" /\ rt.calls = 3
    /\ \A s \in {429, 500} :
         (rt.hist # <<>> /\ \A k \in 1..Len(rt.hist) : rt.hist[k] = Err(s))
           => /\ rt.st = "thrown" => rt.calls = rt.retries /\ rt.lastError = s
              /\ rt.calls < rt.retries => rt.st \in {"sleep", "call"}
              /\ rt.st = "call" => rt.calls < rt.retries

RetryBoundWitness ==
    \/ rt.retries = DefaultRetries /\ rt.st = "returned"
          /\ rt.hist = <<Err(500), Err(500), Ok200>>
    \/ rt.retries = DefaultRetries /\ rt.st = "thrown"
          /\ rt.hist = <<Err(500), Err(500), Err(500)>>

Retryable(o) == ~o.ok /\ (o.status = 429 \/ o.status >= 500)

\* C5: a failure is retried iff it carries status 429 or a status >= 500;
\* any other failure (another status, or none) is re-raised on the attempt
\* where it occurs, with no wait and no further invocation of fn.
RetryClassification ==
    /\ \A k \in 1..(Len(rt.hist) - 1) : Retryable(rt.hist[k])
    /\ (rt.hist # <<>> /\ ~Last(rt.hist).ok /\ ~Retryable(Last(rt.hist)))
          => /\ rt.st = "thrown"
             /\ rt.lastError = Last(rt.hist).status
             /\ Len(rt.waits) = Len(rt.hist) - 1
    /\ (rt.hist # <<>> /\ Retryable(Last(rt.hist)))
          => /\ Len(rt.waits) = Len(rt.hist)
             /\ rt.st = "thrown" => rt.i = rt.retries
    /\ rt.st = "sleep" => rt.hist # <<>> /\ Retryable(Last(rt.hist))

RetryClassificationWitness ==
    /\ rt.st = "thrown" /\ Len(rt.hist) = 2
    /\ rt.hist[1] = Err(429) /\ rt.hist[2] = Err(NoStatus)

\* C25: the wait after failed attempt i (counted from 0) lies between
\* delay * 2^i and delay * 2^i + jitter; with the defaults the first three
\* waits lie in [1000, 1200], [2000, 2200] and [4000, 4200], and every wait is
\* longer than the one before it
BackoffWaits ==
    \A n \in 1..Len(rt.waits) :
        /\ rt.waits[n] >= DefaultDelay * Pow2(n - 1)
        /\ rt.waits[n] <= DefaultDelay * Pow2(n - 1) + DefaultJitter
        /\ n = 1 => rt.waits[n] >= 1000 /\ rt.waits[n] <= 1200
        /\ n = 2 => rt.waits[n] >= 2000 /\ rt.waits[n] <= 2200
        /\ n = 3 => rt.waits[n] >= 4000 /\ rt.waits[n] <= 4200
        /\ n > 1 => rt.waits[n] > rt.waits[n - 1]

\* three waits, the first with the largest jitter and the third with none
BackoffWaitsWitness ==
    /\ rt.retries = DefaultRetries /\ Len(rt.waits) = 3
    /\ rt.waits[1] = 1199 /\ rt.waits[2] = 2100 /\ rt.waits[3] = 4000

\* C30: when every attempt fails with a retryable error, a wait follows every
\* failed attempt, the last one included: there are as many waits as
\* invocations, and the error is raised only when the wait after the last
\* attempt is over
WaitAfterEveryFailure ==
    (rt.hist # <<>> /\ \A k \in 1..Len(rt.hist) : Retryable(rt.hist[k])) =>
        /\ Len(rt.waits) = rt.calls
        /\ rt.st \in {"sleep", "call", "thrown"}
        /\ rt.st = "thrown" => rt.calls = rt.retries /\ rt.i = rt.retries
        /\ (rt.calls = rt.retries /\ rt.i < rt.retries) => rt.st = "sleep"

\* the last of three attempts has failed and its wait is running
WaitAfterEveryFailureWitness ==
    /\ rt.retries = DefaultRetries /\ rt.calls = 3 /\ Len(rt.waits) = 3
    /\ rt.st = "sleep"
    /\ \A k \in 1..3 : rt.hist[k] = Err(503)

-----------------------------------------------------------------------------
(* Two overlapping runs of the publisher *)

NextOverlap == OverlapStart \/ OverlapStep

SpecOverlap == Init /\ [][NextOverlap]_vars

\* C32: when two runs overlap, what a completed swap has put in the live
\* catalog is the whole entry set of one of the two runs, never an empty, a
\* partial or a mixed one
OverlapPublishesOneRun ==
    overlap.st = "running" =>
        \A r \in {1, 2} :
            overlap.run[r].swapped =>
                overlap.run[r].published \in {overlap.run[1].batch, overlap.run[2].batch}

-----------------------------------------------------------------------------
(* Orders and balance under concurrent requests *)

NextShop == ShopOpen \/ ShopRequest \/ checkOrder \/ cancelOrder \/ purchase

SpecShop == Init /\ [][NextShop]_vars

\* C33: under any interleaving of check-order and cancel-order requests for an
\* order, the fallback of cancel-order included, the price of the order is
\* credited back to the balance at most once
RefundAtMostOnce == shop.credits <= 1

\* C34: under any interleaving of purchase requests of one user the balance
\* never becomes negative: a purchase takes the price only from a balance that
\* holds at least the price at that moment
BalanceNeverNegative == shop.balance >= 0

\* C35: a completed purchase request has left the balance alone and recorded no
\* order, or has taken exactly the price and recorded exactly one PENDING order
\* with that price; the price is never taken without an order
PurchaseOutcome ==
    \A s \in Slots :
        LET f == shop.req[s]
        IN  f.kind = "purchase" /\ f.pc = "done" =>
                \/ f.debited = 0 /\ f.created = 0
                \/ f.debited = f.price_toman /\ f.created = 1

\* the stored statuses a request of the kind leaves alone
Absorbing(kind) ==
    IF kind = "cancel" THEN {"CANCELED", "TIMEOUT", "FINISHED", "RECEIVED"}
    ELSE OrderStatuses \ {"PENDING", "ACTIVE"}

\* C36: without interleaving, cancel-order on an order stored as CANCELED,
\* TIMEOUT, FINISHED or RECEIVED answers 400, check-order on an order stored as
\* anything but PENDING or ACTIVE answers whatever the provider reports, and
\* neither changes the stored status or the balance
TerminalAbsorbing ==
    [][\A s \in Slots :
          LET f == shop.req[s]
              g == shop'.req[s]
          IN  (/\ f.kind \in {"check", "cancel"} /\ InFlight(f)
               /\ f.alone /\ g.alone /\ g # f
               /\ f.before.status \in Absorbing(f.kind)) =>
                  /\ shop'.order = shop.order
                  /\ shop'.balance = shop.balance
                  /\ shop'.credits = shop.credits
                  /\ (f.kind = "cancel" /\ g.pc = "done" => g.code = 400)]_vars

\* a cancel-order refused on a TIMEOUT order and a check-order on a TIMEOUT
\* order to which the provider reported CANCELED, each served on its own
TerminalAbsorbingWitness ==
    \E s, t \in Slots :
        /\ shop.req[s].kind = "cancel" /\ shop.req[s].pc = "done"
        /\ shop.req[s].alone /\ shop.req[s].before.status = "TIMEOUT"
        /\ shop.req[s].code = 400
        /\ shop.req[t].kind = "check" /\ shop.req[t].pc = "done"
        /\ shop.req[t].alone /\ shop.req[t].before.status = "TIMEOUT"
        /\ shop.req[t].data = "CANCELED"
        /\ shop.order.status = "TIMEOUT" /\ shop.credits = 0

-----------------------------------------------------------------------------
(* The TTL cache on its own *)

NextCache == TtlLoad \/ TtlSet \/ TtlGet \/ TtlTick

SpecCache == Init /\ [][NextCache]_vars

\* C37: getCache(key) returns the value of the latest setCache(key) iff the
\* time of the call is strictly before set time + ttl seconds, a missing or
\* zero ttl meaning 600 seconds; otherwise it returns null and the key has no
\* entry afterwards
TtlCacheFresh ==
    ttl.last.op = "get" =>
        LET h == ttl.latest[ttl.last.key]
            seconds == IF h.ttlSeconds \in {Undefined, 0} THEN 600 ELSE h.ttlSeconds
            live == h.set /\ ttl.last.at < h.at + seconds * 1000
        IN  /\ live <=> ttl.last.result = h.value /\ h.set
            /\ ~live => ttl.last.result = "null" /\ ~ttl.cache[ttl.last.key].present

\* a value set without a ttl is read back just before its 600 seconds are over
TtlCacheFreshWitness ==
    /\ ttl.last.op = "get" /\ ttl.last.result = "v2"
    /\ ttl.latest[ttl.last.key].ttlSeconds = Undefined
    /\ ttl.last.at - ttl.latest[ttl.last.key].at = 599000

-----------------------------------------------------------------------------
(* The catalog cache on its own *)

NextFront == FrontStart \/ FrontPublish \/ FrontTick \/ getServices

SpecFront == Init /\ [][NextFront]_vars

\* the cache of the server exists and is younger than the configured duration,
\* 300 seconds when none is configured
CacheYoung ==
    /\ storefront.servicesCache.exists
    /\ \E parsed \in CacheTtlSettings :
          /\ storefront.duration = CACHE_DURATION(parsed)
          /\ storefront.now - storefront.cacheTimestamp
                < (IF parsed \in {NaN, 0} THEN 300000 ELSE parsed * 1000)

\* C38: GET /api/services answers from the cache of the server without
\* querying the store iff a cache exists and its age is strictly less than
\* CACHE_DURATION; otherwise it queries the store and on success replaces both
\* cache and timestamp and answers the catalog read; on a failed query it
\* answers 500 and leaves cache and timestamp as they were
ReadThroughCache ==
    [][\A s \in Slots :
          LET f == storefront.req[s]
              g == storefront'.req[s]
              kept == /\ storefront'.servicesCache = storefront.servicesCache
                      /\ storefront'.cacheTimestamp = storefront.cacheTimestamp
          IN  /\ (storefront.st = "up" /\ f.pc \in {"idle", "done"} /\ g # f) =>
                    /\ kept
                    /\ IF CacheYoung
                       THEN /\ g.pc = "done" /\ ~g.queried /\ g.code = 200
                            /\ g.body = storefront.servicesCache.docs
                       ELSE g.pc = "query"
              /\ (f.pc = "query" /\ g # f) =>
                    /\ g.pc = "done" /\ g.queried /\ g.code \in {200, 500}
                    /\ g.code = 200 =>
                          /\ storefront'.servicesCache =
                                [exists |-> TRUE, docs |-> storefront.store]
                          /\ storefront'.cacheTimestamp = f.now
                          /\ g.body = storefront.store
                    /\ g.code = 500 => kept]_vars

\* one request is answered from a cache 299 seconds old that no longer equals
\* the store, another has failed to reload and left the cache in place
ReadThroughCacheWitness ==
    \E s, t \in Slots :
        /\ storefront.req[s].pc = "done" /\ ~storefront.req[s].queried
        /\ storefront.req[s].code = 200
        /\ storefront.req[s].now - storefront.cacheTimestamp = 299000
        /\ storefront.req[s].body = storefront.servicesCache.docs
        /\ storefront.servicesCache.docs # storefront.store
        /\ storefront.req[t].pc = "done" /\ storefront.req[t].code = 500

====
